---- MODULE Spec2Model ----
(***************************************************************************)
(* A model of zerobrew's download path (zb_io/src/download.rs):            *)
(*   Downloader::download          the single-request, verify-as-you-write *)
(*                                 download into the blob cache;           *)
(*   ParallelDownloader            the bounded, de-duplicating coordinator *)
(*                                 (download_all / download_with_dedup).   *)
(*                                                                         *)
(* One batch is modelled: download_all spawns one task per request, every  *)
(* task runs download_with_dedup, and the coordinator awaits the handles   *)
(* in request order.  Each action is one atomic step of one task, cut at   *)
(* the .await points of the source and at the two critical sections of the *)
(* in-flight map.  The HTTP server and the disk are the environment: what  *)
(* a GET answers, how many chunks arrive and whether an I/O call fails are *)
(* chosen nondeterministically.                                             *)
(*                                                                         *)
(* A digest value stands for its 64-character lowercase hex string.  A     *)
(* request's url is not modelled: the answer to each GET is drawn freely,  *)
(* which covers every url and every server.                                *)
(***************************************************************************)
EXTENDS Integers, Sequences, FiniteSets, TLC

\* ------------------------------------------------------------- bounds
MaxReq == 2          \* requests in the batch
MaxConcurrency == 2  \* the semaphore is built with 0..MaxConcurrency permits
MaxBody == 2         \* chunks a response body may hold

Bytes == {1}                 \* the byte every chunk carries: bodies differ in length
Statuses == {200, 404}       \* HTTP statuses a server answers with

\* ------------------------------------------------------------- values
\* SHA-256 as an injective (collision-free) digest of a byte string.
RECURSIVE Sha256(_)
Sha256(content) ==
    IF content = <<>> THEN 0
    ELSE Sha256(SubSeq(content, 1, Len(content) - 1)) * 3 + content[Len(content)]

Contents == UNION {[1..n -> Bytes] : n \in 0..MaxBody}

\* The digests requests ask for: those of the one-chunk and the two-chunk body.
Digests == {Sha256(<<1>>), Sha256(<<1, 1>>)}

HexDigits == <<"0", "1", "2", "3", "4", "5", "6", "7",
               "8", "9", "a", "b", "c", "d", "e", "f">>

\* format!("{:x}", ..): lowercase hex text of a digest value
RECURSIVE HexText(_)
HexText(n) ==
    IF n < 16 THEN HexDigits[n + 1]
    ELSE HexText(n \div 16) \o HexDigits[(n % 16) + 1]

NoPath == [dir |-> "", digest |-> 0]
\* BlobCache::blob_path: computed from the digest only
blob_path(d) == [dir |-> "blobs", digest |-> d]

\* Result<PathBuf, Error>
Pending == [kind |-> "Pending", path |-> NoPath, message |-> "", expected |-> 0, actual |-> 0]
Ok(p) == [kind |-> "Ok", path |-> p, message |-> "", expected |-> 0, actual |-> 0]
NetworkFailure(m) ==
    [kind |-> "NetworkFailure", path |-> NoPath, message |-> m, expected |-> 0, actual |-> 0]
ChecksumMismatch(e, a) ==
    [kind |-> "ChecksumMismatch", path |-> NoPath, message |-> "", expected |-> e, actual |-> a]

\* A task's output once download_all has taken it by handle.await, or once the
\* task finished with its JoinHandle dropped (the output is discarded).
Gone == [kind |-> "Gone", path |-> NoPath, message |-> "", expected |-> 0, actual |-> 0]

\* Error's Display (zb_core): the text e.to_string() yields
to_string(e) ==
    IF e.kind = "ChecksumMismatch"
    THEN "checksum mismatch: expected " \o HexText(e.expected) \o ", got " \o HexText(e.actual)
    ELSE "network failure: " \o e.message

\* Result<PathBuf, String>: the value sent over the broadcast channel
Empty == [kind |-> "Empty", path |-> NoPath, message |-> ""]

\* Variant of broadcast_result that sends the error's message field, not its
\* Display text.
broadcast_message(r) ==
    IF r.kind = "Ok" THEN [kind |-> "Ok", path |-> r.path, message |-> ""]
    ELSE [kind |-> "Err", path |-> NoPath, message |-> r.message]

broadcast_result(r) ==
    IF r.kind = "Ok" THEN [kind |-> "Ok", path |-> r.path, message |-> ""]
    ELSE [kind |-> "Err", path |-> NoPath, message |-> to_string(r)]

\* reqwest's answer to send(): a transport error, or a response with a status
NoResp == [sent |-> FALSE, status |-> -1]
SendError == [sent |-> FALSE, status |-> 0]
Responses == {SendError} \cup {[sent |-> TRUE, status |-> s] : s \in Statuses}

is_success(status) == status >= 200 /\ status < 300

StatusText(s) == IF s = 200 THEN "200 OK" ELSE "404 Not Found"

NoFile == <<0>>      \* "no such file": no content has this value

\* ------------------------------------------------------------- state
VARIABLES
    concurrency,  \* permits the semaphore was built with
    requests,     \* the batch: requests[i] is request i's sha256
    cached0,      \* digests that had a blob when the batch started
    blobs,        \* blobs[d]: content of cache/blobs/<d>.tar.gz, or NoFile
    parts,        \* parts[d]: content of cache/tmp/<d>.tar.gz.part, or NoFile
    inflight,     \* digests with an entry in the in-flight map
    permits,      \* permits the semaphore has available
    pc,           \* pc[i]: where task i is
    resp,         \* resp[i]: what send() gave task i
    hasher,       \* hasher[i]: the bytes fed to task i's Sha256 so far
    dresult,      \* dresult[i]: what downloader.download returned to task i
    rx,           \* rx[i]: the value waiting in task i's broadcast receiver
    result,       \* result[i]: what task i's download_with_dedup returned
    gets,         \* gets[d]: network GETs issued for d so far
    spoiled,      \* digests a GET of which the server or the disk failed to serve
    joined,       \* handles download_all has awaited
    results,      \* download_all's results vector
    ret,          \* what download_all returned
    failed,       \* requests whose task returned an error before download_all returned
    origin,       \* origin[i]: what the download behind task i's pending output returned
    cause         \* what the download behind download_all's error returned

dlVars == <<concurrency, requests, cached0, blobs, parts, inflight, permits, pc, resp,
            hasher, dresult, rx, result, gets, spoiled, joined, results, ret, failed,
            origin, cause>>

\* The cellar (zb_io/src/materialize.rs): one call of a Cellar method.
VARIABLES
    store_entry,  \* the directory tree at the store_entry path, if there is one
    cellar,       \* cellar[k]: the directory tree at cellar/<name>/<version>
    name_dirs,    \* formula names whose directory cellar/<name> exists
    call,         \* the method called and its arguments
    stack,        \* the copy_dir_recursive calls in progress, innermost last
    cret,         \* what the method returned
    cellar0,      \* history: cellar when the method was called
    name_dirs0    \* history: name_dirs when the method was called

fsVars == <<store_entry, cellar, name_dirs, call, stack, cret, cellar0, name_dirs0>>

\* The command line (zb_cli): one run of a command that takes a formula name.
VARIABLES
    command,      \* the command: "install" or "run"
    formula,      \* the formula argument, as typed
    initialized,  \* whether the root and the prefix have been set up
    installed,    \* whether the installer's database has the formula
    cli_pc,       \* where the command is
    normalized,   \* what normalize_formula_name returned
    calls,        \* the installer operations called so far, in order
    cli_ret,      \* what the command returned
    no_link,      \* the Install command's --no-link flag
    installed_version,      \* the installed_version in the formula's installed record
    linked,       \* whether prefix/bin/<name> links into the formula's keg
    has_bin,      \* whether a file exists at <keg>/bin/<name>
    cli_path,     \* the path prepare_execution returned
    installed0    \* history: whether the formula was installed when the command started

\* The Migrate, Uninstall and Reset commands (zb_cli/src/main.rs).
VARIABLES
    yes,            \* the --yes flag
    answer,         \* the line read at the command's last prompt
    packages,       \* Migrate: packages.formulas, the core formulas Homebrew has
    failed_names,   \* Migrate: the `failed` vector
    success_count,  \* Migrate: success_count
    migrated,       \* history: indexes of packages whose plan and execute succeeded
    kegs,           \* Uninstall: the names list_installed returned
    db,             \* the formula names in the installer's installed table
    idx,            \* entries of the list the running loop has dealt with
    root_exists,    \* whether the root directory exists
    prefix_exists,  \* whether the prefix directory exists
    exited          \* whether the command ended in std::process::exit(1)

cmdVars == <<yes, answer, packages, failed_names, success_count, migrated, kegs, db, idx,
             root_exists, prefix_exists, exited>>

cliVars == <<command, formula, initialized, installed, cli_pc, normalized, calls, cli_ret,
             no_link, installed_version, linked, has_bin, cli_path, installed0, cmdVars>>

\* What the commands of one formula argument keep besides the command itself.
formulaVars == <<formula, installed, normalized, no_link, installed_version, linked,
                 has_bin, cli_path, installed0>>

vars == <<dlVars, fsVars, cliVars>>

Tasks == 1..Len(requests)
sha(i) == requests[i]

\* BlobCache::has_blob
has_blob(d) == blobs[d] # NoFile

\* BlobCache::start_write: create cache/tmp/<digest>.part exclusively.
start_write(d) == [parts EXCEPT ![d] = <<>>]

\* BlobWriter::write_all: append the chunk to the .part file.
write_all(d, chunk) == [parts EXCEPT ![d] = Append(@, chunk)]

\* BlobWriter's drop without commit: the .part file is removed.
drop_writer(d) == [parts EXCEPT ![d] = NoFile]

\* BlobWriter::commit: rename the .part file to the canonical blob path
\* (an existing destination is kept).
commit(d) == [blobs EXCEPT ![d] = IF @ # NoFile THEN @ ELSE parts[d]]

NotReturned == [status |-> "Pending", paths |-> <<>>, err |-> Pending]

Init ==
    /\ concurrency \in 0..MaxConcurrency
    /\ requests \in UNION {[1..n -> Digests] : n \in 0..MaxReq}
    /\ blobs \in [Digests -> Contents \cup {NoFile}]
    /\ \A d \in Digests : blobs[d] # NoFile => Sha256(blobs[d]) = d
    /\ cached0 = {d \in Digests : blobs[d] # NoFile}
    /\ parts = [d \in Digests |-> NoFile]
    /\ inflight = {}
    /\ permits = concurrency
    /\ pc = [i \in Tasks |-> "spawned"]
    /\ resp = [i \in Tasks |-> NoResp]
    /\ hasher = [i \in Tasks |-> <<>>]
    /\ dresult = [i \in Tasks |-> Pending]
    /\ rx = [i \in Tasks |-> Empty]
    /\ result = [i \in Tasks |-> Pending]
    /\ gets = [d \in Digests |-> 0]
    /\ spoiled = {}
    /\ joined = 0
    /\ results = <<>>
    /\ ret = NotReturned
    /\ failed = {}
    /\ origin = [i \in Tasks |-> Pending]
    /\ cause = Pending

\* ----------------------------------------- download_with_dedup: lookup
\* Variant of Subscribe that goes on to download beside the entry's owner.
SubscribeAndDownload(i) ==
    /\ pc[i] = "spawned"
    /\ sha(i) \in inflight
    /\ pc' = [pc EXCEPT ![i] = "acquire"]
    /\ UNCHANGED <<fsVars, cliVars, failed, origin, cause>>
    /\ UNCHANGED <<concurrency, requests, cached0, blobs, parts, inflight, permits, resp,
                   hasher, dresult, rx, result, gets, spoiled, joined, results, ret>>

\* The digest has an in-flight entry: subscribe to it (no permit taken).
Subscribe(i) ==
    /\ pc[i] = "spawned"
    /\ sha(i) \in inflight
    /\ pc' = [pc EXCEPT ![i] = "recv"]
    /\ UNCHANGED <<fsVars, cliVars, failed, origin, cause>>
    /\ UNCHANGED <<concurrency, requests, cached0, blobs, parts, inflight, permits, resp,
                   hasher, dresult, rx, result, gets, spoiled, joined, results, ret>>

\* Variant of Register that forgets to insert the in-flight entry.
RegisterNoEntry(i) ==
    /\ pc[i] = "spawned"
    /\ sha(i) \notin inflight
    /\ pc' = [pc EXCEPT ![i] = "acquire"]
    /\ UNCHANGED <<fsVars, cliVars, failed, origin, cause>>
    /\ UNCHANGED <<concurrency, requests, cached0, blobs, parts, inflight, permits, resp,
                   hasher, dresult, rx, result, gets, spoiled, joined, results, ret>>

\* No entry: insert a fresh channel and become the task that downloads.
Register(i) ==
    /\ pc[i] = "spawned"
    /\ sha(i) \notin inflight
    /\ inflight' = inflight \cup {sha(i)}
    /\ pc' = [pc EXCEPT ![i] = "acquire"]
    /\ UNCHANGED <<fsVars, cliVars, failed, origin, cause>>
    /\ UNCHANGED <<concurrency, requests, cached0, blobs, parts, permits, resp,
                   hasher, dresult, rx, result, gets, spoiled, joined, results, ret>>

\* The task's future completes with r: the output waits for handle.await, or is
\* dropped when download_all has returned and its handles are gone.
Output(i, r) == [result EXCEPT ![i] = IF ret = NotReturned THEN r ELSE Gone]

\* History: task i's future completed with r while download_all was running.
Failed(i, r) == IF ret = NotReturned /\ r.kind # "Ok" THEN failed \cup {i} ELSE failed

\* rx.recv().await, then the Err(String) rewrapped as NetworkFailure.  The
\* receiver was created under the map lock while the entry existed and the
\* winner sends under the same lock, so the one value sent is the one received.
Recv(i) ==
    /\ pc[i] = "recv"
    /\ rx[i] # Empty
    /\ result' = Output(i, IF rx[i].kind = "Ok" THEN Ok(rx[i].path)
                              ELSE NetworkFailure(rx[i].message))
    /\ failed' = Failed(i, rx[i])
    /\ origin' = [origin EXCEPT ![i] = IF ret = NotReturned THEN @ ELSE Pending]
    /\ rx' = [rx EXCEPT ![i] = Empty]
    /\ pc' = [pc EXCEPT ![i] = "done"]
    /\ UNCHANGED <<fsVars, cliVars, cause>>
    /\ UNCHANGED <<concurrency, requests, cached0, blobs, parts, inflight, permits, resp,
                   hasher, dresult, gets, spoiled, joined, results, ret>>

\* Variant of Acquire that does not wait for a free permit.
AcquireNoWait(i) ==
    /\ pc[i] = "acquire"
    /\ permits' = permits - 1
    /\ pc' = [pc EXCEPT ![i] = "download"]
    /\ UNCHANGED <<fsVars, cliVars, failed, origin, cause>>
    /\ UNCHANGED <<concurrency, requests, cached0, blobs, parts, inflight, resp,
                   hasher, dresult, rx, result, gets, spoiled, joined, results, ret>>

\* semaphore.acquire().await
Acquire(i) ==
    /\ pc[i] = "acquire"
    /\ permits > 0
    /\ permits' = permits - 1
    /\ pc' = [pc EXCEPT ![i] = "download"]
    /\ UNCHANGED <<fsVars, cliVars, failed, origin, cause>>
    /\ UNCHANGED <<concurrency, requests, cached0, blobs, parts, inflight, resp,
                   hasher, dresult, rx, result, gets, spoiled, joined, results, ret>>

\* --------------------------------------------- Downloader::download
\* download returns r to download_with_dedup; its locals are dropped.
Returns(i, r) ==
    /\ dresult' = [dresult EXCEPT ![i] = r]
    /\ resp' = [resp EXCEPT ![i] = NoResp]
    /\ hasher' = [hasher EXCEPT ![i] = <<>>]
    /\ pc' = [pc EXCEPT ![i] = "publish"]

\* The blob cache already has the digest: return its path, no network.
CacheHit(i) ==
    /\ pc[i] = "download"
    /\ has_blob(sha(i))
    /\ Returns(i, Ok(blob_path(sha(i))))
    /\ UNCHANGED <<fsVars, cliVars, failed, origin, cause>>
    /\ UNCHANGED <<concurrency, requests, cached0, blobs, parts, inflight, permits,
                   rx, result, gets, spoiled, joined, results, ret>>

\* Variant of SendGet that does not look in the blob cache first.
SendGetUnconditional(i) ==
    /\ pc[i] = "download"
    /\ gets' = [gets EXCEPT ![sha(i)] = @ + 1]
    /\ pc' = [pc EXCEPT ![i] = "sending"]
    /\ UNCHANGED <<fsVars, cliVars, failed, origin, cause>>
    /\ UNCHANGED <<concurrency, requests, cached0, blobs, parts, inflight, permits, resp,
                   hasher, dresult, rx, result, spoiled, joined, results, ret>>

\* client.get(url).send(): the GET goes out and the task awaits the answer.
SendGet(i) ==
    /\ pc[i] = "download"
    /\ ~has_blob(sha(i))
    /\ gets' = [gets EXCEPT ![sha(i)] = @ + 1]
    /\ pc' = [pc EXCEPT ![i] = "sending"]
    /\ UNCHANGED <<fsVars, cliVars, failed, origin, cause>>
    /\ UNCHANGED <<concurrency, requests, cached0, blobs, parts, inflight, permits, resp,
                   hasher, dresult, rx, result, spoiled, joined, results, ret>>

\* The environment answers the GET.
Respond(i) ==
    /\ pc[i] = "sending"
    /\ \E r \in Responses :
          /\ resp' = [resp EXCEPT ![i] = r]
          /\ spoiled' = IF r.sent /\ is_success(r.status) THEN spoiled
                        ELSE spoiled \cup {sha(i)}
    /\ pc' = [pc EXCEPT ![i] = "responded"]
    /\ UNCHANGED <<fsVars, cliVars, failed, origin, cause>>
    /\ UNCHANGED <<concurrency, requests, cached0, blobs, parts, inflight, permits,
                   hasher, dresult, rx, result, gets, joined, results, ret>>

\* send() failed: NetworkFailure with the transport error's text.
SendFailed(i) ==
    /\ pc[i] = "responded"
    /\ ~resp[i].sent
    /\ Returns(i, NetworkFailure("error sending request"))
    /\ UNCHANGED <<fsVars, cliVars, failed, origin, cause>>
    /\ UNCHANGED <<concurrency, requests, cached0, blobs, parts, inflight, permits,
                   rx, result, gets, spoiled, joined, results, ret>>

\* Variant of BadStatus that ignores the status and streams the error body.
BadStatusIgnored(i) ==
    /\ pc[i] = "responded"
    /\ resp[i].sent
    /\ ~is_success(resp[i].status)
    /\ parts' = start_write(sha(i))
    /\ pc' = [pc EXCEPT ![i] = "stream"]
    /\ UNCHANGED <<fsVars, cliVars, failed, origin, cause>>
    /\ UNCHANGED <<concurrency, requests, cached0, blobs, inflight, permits, resp,
                   hasher, dresult, rx, result, gets, spoiled, joined, results, ret>>

\* Non-2xx status: NetworkFailure("HTTP <status>"), before any writer exists.
BadStatus(i) ==
    /\ pc[i] = "responded"
    /\ resp[i].sent
    /\ ~is_success(resp[i].status)
    /\ Returns(i, NetworkFailure("HTTP " \o StatusText(resp[i].status)))
    /\ UNCHANGED <<fsVars, cliVars, failed, origin, cause>>
    /\ UNCHANGED <<concurrency, requests, cached0, blobs, parts, inflight, permits,
                   rx, result, gets, spoiled, joined, results, ret>>

\* 2xx: the blob writer is opened and the body starts streaming.
StartWrite(i) ==
    /\ pc[i] = "responded"
    /\ resp[i].sent
    /\ is_success(resp[i].status)
    /\ parts[sha(i)] = NoFile
    /\ parts' = start_write(sha(i))
    /\ pc' = [pc EXCEPT ![i] = "stream"]
    /\ UNCHANGED <<fsVars, cliVars, failed, origin, cause>>
    /\ UNCHANGED <<concurrency, requests, cached0, blobs, inflight, permits, resp,
                   hasher, dresult, rx, result, gets, spoiled, joined, results, ret>>

\* start_write fails (the .part file exists, or the disk refuses).
StartWriteFails(i) ==
    /\ pc[i] = "responded"
    /\ resp[i].sent
    /\ is_success(resp[i].status)
    /\ spoiled' = spoiled \cup {sha(i)}
    /\ Returns(i, NetworkFailure("failed to create blob writer"))
    /\ UNCHANGED <<fsVars, cliVars, failed, origin, cause>>
    /\ UNCHANGED <<concurrency, requests, cached0, blobs, parts, inflight, permits,
                   rx, result, gets, joined, results, ret>>

\* Variant of Chunk that hashes the chunk and does not write it.
ChunkNotWritten(i) ==
    /\ pc[i] = "stream"
    /\ Len(hasher[i]) < MaxBody
    /\ \E b \in Bytes : hasher' = [hasher EXCEPT ![i] = Append(@, b)]
    /\ UNCHANGED <<fsVars, cliVars, failed, origin, cause>>
    /\ UNCHANGED <<concurrency, requests, cached0, blobs, parts, inflight, permits, pc, resp,
                   dresult, rx, result, gets, spoiled, joined, results, ret>>

\* stream.next() gives a chunk: hasher.update and writer.write_all.
Chunk(i) ==
    /\ pc[i] = "stream"
    /\ Len(hasher[i]) < MaxBody
    /\ \E b \in Bytes :
          /\ hasher' = [hasher EXCEPT ![i] = Append(@, b)]
          /\ parts' = write_all(sha(i), b)
    /\ UNCHANGED <<fsVars, cliVars, failed, origin, cause>>
    /\ UNCHANGED <<concurrency, requests, cached0, blobs, inflight, permits, pc, resp,
                   dresult, rx, result, gets, spoiled, joined, results, ret>>

\* stream.next() gives a chunk and write_all fails: the writer is dropped.
ChunkWriteFails(i) ==
    /\ pc[i] = "stream"
    /\ Len(hasher[i]) < MaxBody
    /\ parts' = drop_writer(sha(i))
    /\ spoiled' = spoiled \cup {sha(i)}
    /\ Returns(i, NetworkFailure("failed to write chunk"))
    /\ UNCHANGED <<fsVars, cliVars, failed, origin, cause>>
    /\ UNCHANGED <<concurrency, requests, cached0, blobs, inflight, permits,
                   rx, result, gets, joined, results, ret>>

\* Variant of ChunkReadFails that returns without removing the .part file.
ChunkReadFailsKeepsPart(i) ==
    /\ pc[i] = "stream"
    /\ spoiled' = spoiled \cup {sha(i)}
    /\ Returns(i, NetworkFailure("failed to read chunk"))
    /\ UNCHANGED <<fsVars, cliVars, failed, origin, cause>>
    /\ UNCHANGED <<concurrency, requests, cached0, blobs, parts, inflight, permits,
                   rx, result, gets, joined, results, ret>>

\* stream.next() gives an error: the writer is dropped.
ChunkReadFails(i) ==
    /\ pc[i] = "stream"
    /\ parts' = drop_writer(sha(i))
    /\ spoiled' = spoiled \cup {sha(i)}
    /\ Returns(i, NetworkFailure("failed to read chunk"))
    /\ UNCHANGED <<fsVars, cliVars, failed, origin, cause>>
    /\ UNCHANGED <<concurrency, requests, cached0, blobs, inflight, permits,
                   rx, result, gets, joined, results, ret>>

\* stream.next() gives None: the body has been received in full.
StreamEnd(i) ==
    /\ pc[i] = "stream"
    /\ pc' = [pc EXCEPT ![i] = "verify"]
    /\ spoiled' = IF Sha256(hasher[i]) = sha(i) THEN spoiled ELSE spoiled \cup {sha(i)}
    /\ UNCHANGED <<fsVars, cliVars, failed, origin, cause>>
    /\ UNCHANGED <<concurrency, requests, cached0, blobs, parts, inflight, permits, resp,
                   hasher, dresult, rx, result, gets, joined, results, ret>>

\* hasher.finalize() formatted as lowercase hex
actual_hash(i) == Sha256(hasher[i])

\* Variant of VerifyMismatch that leaves the .part file behind.
MismatchKeepsPart(i) ==
    /\ pc[i] = "verify"
    /\ actual_hash(i) # sha(i)
    /\ Returns(i, ChecksumMismatch(sha(i), actual_hash(i)))
    /\ UNCHANGED <<fsVars, cliVars, failed, origin, cause>>
    /\ UNCHANGED <<concurrency, requests, cached0, blobs, parts, inflight, permits,
                   rx, result, gets, spoiled, joined, results, ret>>

\* Variant of VerifyCommit that commits without comparing the digests.
CommitUnverified(i) ==
    /\ pc[i] = "verify"
    /\ blobs' = commit(sha(i))
    /\ parts' = drop_writer(sha(i))
    /\ Returns(i, Ok(blob_path(sha(i))))
    /\ UNCHANGED <<fsVars, cliVars, failed, origin, cause>>
    /\ UNCHANGED <<concurrency, requests, cached0, inflight, permits,
                   rx, result, gets, spoiled, joined, results, ret>>

\* actual_hash != expected_sha256: ChecksumMismatch, the writer is dropped.
VerifyMismatch(i) ==
    /\ pc[i] = "verify"
    /\ actual_hash(i) # sha(i)
    /\ parts' = drop_writer(sha(i))
    /\ Returns(i, ChecksumMismatch(sha(i), actual_hash(i)))
    /\ UNCHANGED <<fsVars, cliVars, failed, origin, cause>>
    /\ UNCHANGED <<concurrency, requests, cached0, blobs, inflight, permits,
                   rx, result, gets, spoiled, joined, results, ret>>

\* The digests agree: writer.commit().
VerifyCommit(i) ==
    /\ pc[i] = "verify"
    /\ actual_hash(i) = sha(i)
    /\ blobs' = commit(sha(i))
    /\ parts' = drop_writer(sha(i))
    /\ Returns(i, Ok(blob_path(sha(i))))
    /\ UNCHANGED <<fsVars, cliVars, failed, origin, cause>>
    /\ UNCHANGED <<concurrency, requests, cached0, inflight, permits,
                   rx, result, gets, spoiled, joined, results, ret>>

\* Variant of Publish that removes the entry and sends to nobody.
PublishWithoutSend(i) ==
    /\ pc[i] = "publish"
    /\ inflight' = inflight \ {sha(i)}
    /\ pc' = [pc EXCEPT ![i] = "release"]
    /\ UNCHANGED <<fsVars, cliVars, failed, origin, cause>>
    /\ UNCHANGED <<concurrency, requests, cached0, blobs, parts, permits, resp,
                   hasher, dresult, result, rx, gets, spoiled, joined, results, ret>>

\* ------------------------------- download_with_dedup: notify and clean up
\* Variant of Publish that sends the result and leaves the entry in the map.
PublishKeepsEntry(i) ==
    /\ pc[i] = "publish"
    /\ rx' = [j \in Tasks |->
                IF pc[j] = "recv" /\ sha(j) = sha(i) /\ rx[j] = Empty
                THEN broadcast_result(dresult[i]) ELSE rx[j]]
    /\ origin' = [j \in Tasks |->
                    IF pc[j] = "recv" /\ sha(j) = sha(i) /\ rx[j] = Empty
                    THEN dresult[i] ELSE origin[j]]
    /\ pc' = [pc EXCEPT ![i] = "release"]
    /\ UNCHANGED <<fsVars, cliVars, failed, cause>>
    /\ UNCHANGED <<concurrency, requests, cached0, blobs, parts, inflight, permits, resp,
                   hasher, dresult, result, gets, spoiled, joined, results, ret>>

\* Under the map lock: remove the entry and send the result to its receivers.
Publish(i) ==
    /\ pc[i] = "publish"
    /\ IF sha(i) \in inflight
       THEN /\ inflight' = inflight \ {sha(i)}
            /\ rx' = [j \in Tasks |->
                        IF pc[j] = "recv" /\ sha(j) = sha(i) /\ rx[j] = Empty
                        THEN broadcast_result(dresult[i]) ELSE rx[j]]
            /\ origin' = [j \in Tasks |->
                            IF pc[j] = "recv" /\ sha(j) = sha(i) /\ rx[j] = Empty
                            THEN dresult[i] ELSE origin[j]]
       ELSE UNCHANGED <<inflight, rx, origin>>
    /\ pc' = [pc EXCEPT ![i] = "release"]
    /\ UNCHANGED <<fsVars, cliVars, failed, cause>>
    /\ UNCHANGED <<concurrency, requests, cached0, blobs, parts, permits, resp,
                   hasher, dresult, result, gets, spoiled, joined, results, ret>>

\* Variant of Release that returns without giving the permit back.
ReleaseKeepsPermit(i) ==
    /\ pc[i] = "release"
    /\ result' = Output(i, dresult[i])
    /\ failed' = Failed(i, dresult[i])
    /\ origin' = [origin EXCEPT ![i] = IF ret = NotReturned THEN dresult[i] ELSE Pending]
    /\ dresult' = [dresult EXCEPT ![i] = Pending]
    /\ pc' = [pc EXCEPT ![i] = "done"]
    /\ UNCHANGED <<fsVars, cliVars, cause>>
    /\ UNCHANGED <<concurrency, requests, cached0, blobs, parts, inflight, permits, resp,
                   hasher, rx, gets, spoiled, joined, results, ret>>

\* The function returns its result; _permit is dropped.
Release(i) ==
    /\ pc[i] = "release"
    /\ permits' = permits + 1
    /\ result' = Output(i, dresult[i])
    /\ failed' = Failed(i, dresult[i])
    /\ origin' = [origin EXCEPT ![i] = IF ret = NotReturned THEN dresult[i] ELSE Pending]
    /\ dresult' = [dresult EXCEPT ![i] = Pending]
    /\ pc' = [pc EXCEPT ![i] = "done"]
    /\ UNCHANGED <<fsVars, cliVars, cause>>
    /\ UNCHANGED <<concurrency, requests, cached0, blobs, parts, inflight, resp,
                   hasher, rx, gets, spoiled, joined, results, ret>>

\* ------------------------------------------------------- download_all
\* Variant of JoinOk that takes the tasks' results in completion order.
JoinOkAnyOrder ==
    /\ ret = NotReturned
    /\ joined < Len(requests)
    /\ \E i \in Tasks :
          /\ pc[i] = "done"
          /\ result[i].kind = "Ok"
          /\ results' = Append(results, result[i].path)
          /\ result' = [result EXCEPT ![i] = Gone]
          /\ origin' = [origin EXCEPT ![i] = Pending]
    /\ joined' = joined + 1
    /\ UNCHANGED <<fsVars, cliVars, failed, cause>>
    /\ UNCHANGED <<concurrency, requests, cached0, blobs, parts, inflight, permits, pc, resp,
                   hasher, dresult, rx, gets, spoiled, ret>>

\* handle.await gave Ok(path): push it.
JoinOk ==
    /\ ret = NotReturned
    /\ joined < Len(requests)
    /\ pc[joined + 1] = "done"
    /\ result[joined + 1].kind = "Ok"
    /\ results' = Append(results, result[joined + 1].path)
    /\ result' = [result EXCEPT ![joined + 1] = Gone]
    /\ origin' = [origin EXCEPT ![joined + 1] = Pending]
    /\ joined' = joined + 1
    /\ UNCHANGED <<fsVars, cliVars, failed, cause>>
    /\ UNCHANGED <<concurrency, requests, cached0, blobs, parts, inflight, permits, pc, resp,
                   hasher, dresult, rx, gets, spoiled, ret>>

\* Variant of JoinErr that skips the failed request and goes on to the next.
JoinErrSkips ==
    /\ ret = NotReturned
    /\ joined < Len(requests)
    /\ pc[joined + 1] = "done"
    /\ result[joined + 1].kind # "Ok"
    /\ result' = [result EXCEPT ![joined + 1] = Gone]
    /\ origin' = [origin EXCEPT ![joined + 1] = Pending]
    /\ joined' = joined + 1
    /\ UNCHANGED <<fsVars, cliVars, failed, cause>>
    /\ UNCHANGED <<concurrency, requests, cached0, blobs, parts, inflight, permits, pc, resp,
                   hasher, dresult, rx, gets, spoiled, results, ret>>

\* The outputs of the finished tasks go with the handles that are dropped.
DropOutputs ==
    /\ result' = [i \in Tasks |-> IF pc[i] = "done" THEN Gone ELSE result[i]]
    /\ origin' = [i \in Tasks |-> IF pc[i] = "done" THEN Pending ELSE origin[i]]

\* Variant of JoinErr that reports every failure as a task join error.
JoinErrWrapped ==
    /\ ret = NotReturned
    /\ joined < Len(requests)
    /\ pc[joined + 1] = "done"
    /\ result[joined + 1].kind # "Ok"
    /\ ret' = [status |-> "Err", paths |-> <<>>, err |-> NetworkFailure("task join error")]
    /\ cause' = origin[joined + 1]
    /\ DropOutputs
    /\ UNCHANGED <<fsVars, cliVars, failed>>
    /\ UNCHANGED <<concurrency, requests, cached0, blobs, parts, inflight, permits, pc, resp,
                   hasher, dresult, rx, gets, spoiled, joined, results>>

\* Variant of JoinErr that returns the error of whichever task has failed,
\* as a join in completion order would.
JoinErrAnyOrder ==
    /\ ret = NotReturned
    /\ joined < Len(requests)
    /\ \E i \in Tasks :
          /\ pc[i] = "done"
          /\ result[i].kind \notin {"Ok", "Gone"}
          /\ ret' = [status |-> "Err", paths |-> <<>>, err |-> result[i]]
          /\ cause' = origin[i]
    /\ DropOutputs
    /\ UNCHANGED <<fsVars, cliVars, failed>>
    /\ UNCHANGED <<concurrency, requests, cached0, blobs, parts, inflight, permits, pc, resp,
                   hasher, dresult, rx, gets, spoiled, joined, results>>

\* handle.await gave Err(e): `?` returns it at once.
JoinErr ==
    /\ ret = NotReturned
    /\ joined < Len(requests)
    /\ pc[joined + 1] = "done"
    /\ result[joined + 1].kind # "Ok"
    /\ ret' = [status |-> "Err", paths |-> <<>>, err |-> result[joined + 1]]
    /\ cause' = origin[joined + 1]
    /\ DropOutputs
    /\ UNCHANGED <<fsVars, cliVars, failed>>
    /\ UNCHANGED <<concurrency, requests, cached0, blobs, parts, inflight, permits, pc, resp,
                   hasher, dresult, rx, gets, spoiled, joined, results>>

\* Every handle has been awaited: Ok(results).
ReturnOk ==
    /\ ret = NotReturned
    /\ joined = Len(requests)
    /\ ret' = [status |-> "Ok", paths |-> results, err |-> Pending]
    /\ UNCHANGED <<fsVars, cliVars, failed, origin, cause>>
    /\ UNCHANGED <<concurrency, requests, cached0, blobs, parts, inflight, permits, pc, resp,
                   hasher, dresult, rx, result, gets, spoiled, joined, results>>

Next ==
    \/ \E i \in Tasks : Subscribe(i)
    \/ \E i \in Tasks : Register(i)
    \/ \E i \in Tasks : Recv(i)
    \/ \E i \in Tasks : Acquire(i)
    \/ \E i \in Tasks : CacheHit(i)
    \/ \E i \in Tasks : SendGet(i)
    \/ \E i \in Tasks : Respond(i)
    \/ \E i \in Tasks : SendFailed(i)
    \/ \E i \in Tasks : BadStatus(i)
    \/ \E i \in Tasks : StartWrite(i)
    \/ \E i \in Tasks : StartWriteFails(i)
    \/ \E i \in Tasks : Chunk(i)
    \/ \E i \in Tasks : ChunkWriteFails(i)
    \/ \E i \in Tasks : ChunkReadFails(i)
    \/ \E i \in Tasks : StreamEnd(i)
    \/ \E i \in Tasks : VerifyMismatch(i)
    \/ \E i \in Tasks : VerifyCommit(i)
    \/ \E i \in Tasks : Publish(i)
    \/ \E i \in Tasks : Release(i)
    \/ JoinOk
    \/ JoinErr
    \/ ReturnOk

\* The caller drops the download_all future while it awaits a handle: the
\* handles and the results vector go with it.  A dropped JoinHandle detaches
\* its task, so the tasks keep running.
Aborted == [status |-> "Aborted", paths |-> <<>>, err |-> Pending]

Abort ==
    /\ ret = NotReturned
    /\ joined < Len(requests)
    /\ ret' = Aborted
    /\ DropOutputs
    /\ results' = <<>>
    /\ UNCHANGED <<fsVars, cliVars, failed, cause>>
    /\ UNCHANGED <<concurrency, requests, cached0, blobs, parts, inflight, permits, pc, resp,
                   hasher, dresult, rx, gets, spoiled, joined>>

NextAbort == Next \/ Abort

\* ================================================================ cellar
\* zb_io/src/materialize.rs.  A directory tree is a function from relative
\* paths to nodes; the root directory of a tree is the tree's own existence.
MaxDepth == 2        \* directory levels of a store entry below its root

FormulaNames == {"foo", "bar"}
Versions == {"1.0", "2.0"}
KegIds == FormulaNames \X Versions

\* Cellar::keg_path: cellar_dir.join(name).join(version)
keg_path(name, version) == <<"cellar", name, version>>

TopNames == {"bin", "lib"}   \* names an entry of the root may have
SubNames == {"x"}            \* names an entry of a deeper directory may have

Paths ==
    UNION {{p \in [1..n -> TopNames \cup SubNames] :
               p[1] \in TopNames /\ \A k \in 2..n : p[k] \in SubNames} : n \in 1..MaxDepth}

Parent(p) == SubSeq(p, 1, Len(p) - 1)

\* Nodes.  A mode is written as its octal digits read in decimal (755 is 0o755).
Absent == [type |-> "none", mode |-> 0, data |-> 0, target |-> ""]
File(mode, data) == [type |-> "file", mode |-> mode, data |-> data, target |-> ""]
Symlink(target) == [type |-> "symlink", mode |-> 0, data |-> 0, target |-> target]
Dir(mode) == [type |-> "dir", mode |-> mode, data |-> 0, target |-> ""]

\* What a store entry may hold: a plain and an executable file, a symlink to
\* a directory of the entry and a dangling one, an open and a private directory.
Files == {File(644, 1), File(755, 2)}
Symlinks == {Symlink("bin"), Symlink("gone")}
Dirs == {Dir(755), Dir(700)}

\* mode & 0o111 != 0
is_executable(mode) ==
    \/ mode % 2 = 1
    \/ (mode \div 10) % 2 = 1
    \/ (mode \div 100) % 2 = 1

EmptyTree == [p \in Paths |-> Absent]

Trees ==
    {t \in [Paths -> Files \cup Symlinks \cup Dirs \cup {Absent}] :
        \A p \in Paths : (Len(p) > 1 /\ t[p] # Absent) => t[Parent(p)].type = "dir"}

\* The mode create_dir_all gives a directory it creates (0o777 under umask 022).
DefaultDirMode == 755

\* A keg: whether cellar/<name>/<version> exists, the tree below it, and
\* whether someone has added marker.txt to it.
NoKeg == [exists |-> FALSE, marker |-> FALSE, nodes |-> EmptyTree]
EmptyKeg == [exists |-> TRUE, marker |-> FALSE, nodes |-> EmptyTree]

\* A store entry path with nothing at it.
Missing == [exists |-> FALSE, nodes |-> EmptyTree]

\* Result<PathBuf, Error> and Result<(), Error> of the Cellar methods
Calling == [kind |-> "Pending", path |-> <<>>, message |-> ""]
OkPath(p) == [kind |-> "Ok", path |-> p, message |-> ""]
OkUnit == [kind |-> "Ok", path |-> <<>>, message |-> ""]
StoreCorruption(m) == [kind |-> "StoreCorruption", path |-> <<>>, message |-> m]

NoCall == [op |-> "none", name |-> "", version |-> ""]

\* The keg the call is about.
Key == <<call.name, call.version>>

\* Cellar::has_keg: keg_path(name, version).exists()
has_keg(k) == cellar[k].exists

\* The directory cellar/<name> holds no keg in cellar c.
is_empty_dir(c, name) == \A v \in Versions : ~c[<<name, v>>].exists

\* No Cellar method is being called.
FsIdle ==
    /\ store_entry = Missing
    /\ cellar = [k \in KegIds |-> NoKeg]
    /\ name_dirs = {}
    /\ call = NoCall
    /\ stack = <<>>
    /\ cret = Calling
    /\ cellar0 = cellar
    /\ name_dirs0 = name_dirs

\* A cellar as earlier calls may have left it: every keg is absent, a copy of
\* the tree t (with or without a marker file added to it) or, after a copy
\* that failed at its start, an empty directory.  cellar/<name> exists for
\* every name that has a keg, and may exist without one.
CellarOf(t, states) ==
    /\ cellar \in [KegIds -> states]
    /\ name_dirs \in SUBSET FormulaNames
    /\ \A k \in KegIds : cellar[k].exists => k[1] \in name_dirs
    /\ stack = <<>>
    /\ cret = Calling
    /\ cellar0 = cellar
    /\ name_dirs0 = name_dirs

\* The tree a complete copy of tree t is: its directories are those that
\* create_dir_all made.
CopyOf(t) == [p \in Paths |-> IF t[p].type = "dir" THEN Dir(DefaultDirMode) ELSE t[p]]

FullKeg(t) == [exists |-> TRUE, marker |-> FALSE, nodes |-> CopyOf(t)]
MarkedKeg(t) == [exists |-> TRUE, marker |-> TRUE, nodes |-> CopyOf(t)]

\* materialize(name, version, store_entry) is called: on a cellar that has
\* no other keg, with a store_entry path that holds a tree or nothing.
MaterializeInit ==
    \E t \in Trees : \E keg \in {NoKeg, FullKeg(t), MarkedKeg(t), EmptyKeg} :
        /\ store_entry \in {[exists |-> TRUE, nodes |-> t], Missing}
        /\ call \in [op : {"materialize"}, name : FormulaNames, version : Versions]
        /\ cellar = [k \in KegIds |-> IF k = Key THEN keg ELSE NoKeg]
        /\ name_dirs = IF keg.exists THEN {call.name} ELSE {}
        /\ stack = <<>>
        /\ cret = Calling
        /\ cellar0 = cellar
        /\ name_dirs0 = name_dirs

\* remove_keg(name, version) is called.
RemoveKegInit ==
    \E t \in Trees :
        /\ store_entry = [exists |-> TRUE, nodes |-> t]
        /\ call \in [op : {"remove_keg"}, name : FormulaNames, version : Versions]
        /\ CellarOf(t, {NoKeg, FullKeg(t)})

Running == call.op # "none" /\ cret = Calling

\* The innermost copy_dir_recursive call: the directory it copies (relative
\* to src and dst), whether it has created dst and read src, and the entries
\* of the read_dir iterator it has not handled yet.
Frame(dir) == [dir |-> dir, entered |-> FALSE, todo |-> {}]
Top == stack[Len(stack)]
SetTop(f) == [stack EXCEPT ![Len(stack)] = f]

\* fs::read_dir(src): the names of the entries of directory dir of tree t
read_dir(t, dir) ==
    {n \in TopNames \cup SubNames :
        Append(dir, n) \in Paths /\ t[Append(dir, n)] # Absent}

\* The keg's tree with node put at path p.
PutNode(p, node) == [cellar EXCEPT ![Key].nodes[p] = node]

\* `?`: the error is returned through every copy_dir_recursive call in progress.
Fails(m) ==
    /\ cret' = StoreCorruption(m)
    /\ stack' = <<>>

\* ------------------------------------------------- Cellar::materialize
\* Variant of MaterializeExists that copies the store entry over the keg.
MaterializeRecopies ==
    /\ call.op = "materialize" /\ Running /\ stack = <<>>
    /\ has_keg(Key)
    /\ stack' = <<Frame(<<>>)>>
    /\ UNCHANGED <<store_entry, cellar, name_dirs, call, cret, cellar0, name_dirs0>>
    /\ UNCHANGED <<dlVars, cliVars>>

\* keg_path.exists(): return the path, touch nothing.
MaterializeExists ==
    /\ call.op = "materialize" /\ Running /\ stack = <<>>
    /\ has_keg(Key)
    /\ cret' = OkPath(keg_path(call.name, call.version))
    /\ UNCHANGED <<store_entry, cellar, name_dirs, call, stack, cellar0, name_dirs0>>
    /\ UNCHANGED <<dlVars, cliVars>>

\* create_dir_all(parent), then copy_dir_recursive(store_entry, keg_path) is called.
CreateParent ==
    /\ call.op = "materialize" /\ Running /\ stack = <<>>
    /\ ~has_keg(Key)
    /\ name_dirs' = name_dirs \cup {call.name}
    /\ stack' = <<Frame(<<>>)>>
    /\ UNCHANGED <<store_entry, cellar, call, cret, cellar0, name_dirs0>>
    /\ UNCHANGED <<dlVars, cliVars>>

\* create_dir_all(parent) fails.
CreateParentFails ==
    /\ call.op = "materialize" /\ Running /\ stack = <<>>
    /\ ~has_keg(Key)
    /\ Fails("failed to create keg parent directory")
    /\ UNCHANGED <<store_entry, cellar, name_dirs, call, cellar0, name_dirs0>>
    /\ UNCHANGED <<dlVars, cliVars>>

\* --------------------------------------------------- copy_dir_recursive
\* The source directory of the innermost call exists.
SrcExists == Top.dir # <<>> \/ store_entry.exists

\* The keg with the destination directory of the innermost call created.
WithDstDir ==
    IF Top.dir = <<>> THEN [cellar EXCEPT ![Key].exists = TRUE]
    ELSE PutNode(Top.dir, Dir(DefaultDirMode))

\* create_dir_all(dst) and read_dir(src) succeed.
EnterDir ==
    /\ Running /\ stack # <<>> /\ ~Top.entered
    /\ SrcExists
    /\ cellar' = WithDstDir
    /\ stack' = SetTop([Top EXCEPT !.entered = TRUE,
                                   !.todo = read_dir(store_entry.nodes, Top.dir)])
    /\ UNCHANGED <<store_entry, name_dirs, call, cret, cellar0, name_dirs0>>
    /\ UNCHANGED <<dlVars, cliVars>>

\* create_dir_all(dst) fails.
CreateDirFails ==
    /\ Running /\ stack # <<>> /\ ~Top.entered
    /\ Fails("failed to create directory")
    /\ UNCHANGED <<store_entry, cellar, name_dirs, call, cellar0, name_dirs0>>
    /\ UNCHANGED <<dlVars, cliVars>>

\* create_dir_all(dst) succeeds and read_dir(src) fails: always when src does
\* not exist, and whenever the disk refuses.
ReadDirFails ==
    /\ Running /\ stack # <<>> /\ ~Top.entered
    /\ cellar' = WithDstDir
    /\ Fails("failed to read directory")
    /\ UNCHANGED <<store_entry, name_dirs, call, cellar0, name_dirs0>>
    /\ UNCHANGED <<dlVars, cliVars>>

\* The read_dir iterator, or entry.file_type(), gives an error.
ReadEntryFails ==
    /\ Running /\ stack # <<>> /\ Top.entered /\ Top.todo # {}
    /\ Fails("failed to read directory entry")
    /\ UNCHANGED <<store_entry, cellar, name_dirs, call, cellar0, name_dirs0>>
    /\ UNCHANGED <<dlVars, cliVars>>

\* The node of the store entry that entry n of the innermost call names.
Src(n) == store_entry.nodes[Append(Top.dir, n)]

\* The iterator gives an entry (in any order).
Entry(n, type) ==
    /\ Running /\ stack # <<>> /\ Top.entered
    /\ n \in Top.todo
    /\ Src(n).type = type

\* A directory: copy_dir_recursive(src_path, dst_path) is called.
CopyDir ==
    \E n \in TopNames \cup SubNames :
        /\ Entry(n, "dir")
        /\ stack' = Append(SetTop([Top EXCEPT !.todo = @ \ {n}]), Frame(Append(Top.dir, n)))
        /\ UNCHANGED <<store_entry, cellar, name_dirs, call, cret, cellar0, name_dirs0>>
        /\ UNCHANGED <<dlVars, cliVars>>

\* Variant of CopySymlink that takes the branch of the non-unix build:
\* fs::copy(src_path, dst_path), which writes a regular file.
CopySymlinkAsFile ==
    \E n \in TopNames \cup SubNames :
        /\ Entry(n, "symlink")
        /\ cellar' = PutNode(Append(Top.dir, n), File(644, 1))
        /\ stack' = SetTop([Top EXCEPT !.todo = @ \ {n}])
        /\ UNCHANGED <<store_entry, name_dirs, call, cret, cellar0, name_dirs0>>
        /\ UNCHANGED <<dlVars, cliVars>>

\* A symlink: read_link(src_path), then symlink(target, dst_path).
CopySymlink ==
    \E n \in TopNames \cup SubNames :
        /\ Entry(n, "symlink")
        /\ cellar' = PutNode(Append(Top.dir, n), Symlink(Src(n).target))
        /\ stack' = SetTop([Top EXCEPT !.todo = @ \ {n}])
        /\ UNCHANGED <<store_entry, name_dirs, call, cret, cellar0, name_dirs0>>
        /\ UNCHANGED <<dlVars, cliVars>>

\* read_link or symlink fails.
CopySymlinkFails ==
    \E n \in TopNames \cup SubNames :
        /\ Entry(n, "symlink")
        /\ Fails("failed to create symlink")
        /\ UNCHANGED <<store_entry, cellar, name_dirs, call, cellar0, name_dirs0>>
        /\ UNCHANGED <<dlVars, cliVars>>

\* Anything else: fs::copy(src_path, dst_path), which copies the bytes and
\* the permission bits, then set_permissions(dst_path, src's permissions).
CopyFile ==
    \E n \in TopNames \cup SubNames :
        /\ Entry(n, "file")
        /\ cellar' = PutNode(Append(Top.dir, n), File(Src(n).mode, Src(n).data))
        /\ stack' = SetTop([Top EXCEPT !.todo = @ \ {n}])
        /\ UNCHANGED <<store_entry, name_dirs, call, cret, cellar0, name_dirs0>>
        /\ UNCHANGED <<dlVars, cliVars>>

\* fs::copy fails.
CopyFileFails ==
    \E n \in TopNames \cup SubNames :
        /\ Entry(n, "file")
        /\ Fails("failed to copy file")
        /\ UNCHANGED <<store_entry, cellar, name_dirs, call, cellar0, name_dirs0>>
        /\ UNCHANGED <<dlVars, cliVars>>

\* fs::copy succeeds; fs::metadata or set_permissions fails.
SetPermissionsFails ==
    \E n \in TopNames \cup SubNames :
        /\ Entry(n, "file")
        /\ cellar' = PutNode(Append(Top.dir, n), File(Src(n).mode, Src(n).data))
        /\ Fails("failed to set permissions")
        /\ UNCHANGED <<store_entry, name_dirs, call, cellar0, name_dirs0>>
        /\ UNCHANGED <<dlVars, cliVars>>

\* The iterator is exhausted: Ok(()).  When the outermost call returns,
\* materialize returns Ok(keg_path).
CopyReturns ==
    /\ Running /\ stack # <<>> /\ Top.entered /\ Top.todo = {}
    /\ stack' = SubSeq(stack, 1, Len(stack) - 1)
    /\ cret' = IF Len(stack) = 1 THEN OkPath(keg_path(call.name, call.version)) ELSE cret
    /\ UNCHANGED <<store_entry, cellar, name_dirs, call, cellar0, name_dirs0>>
    /\ UNCHANGED <<dlVars, cliVars>>

NextMaterialize ==
    \/ MaterializeExists
    \/ CreateParent
    \/ CreateParentFails
    \/ EnterDir
    \/ CreateDirFails
    \/ ReadDirFails
    \/ ReadEntryFails
    \/ CopyDir
    \/ CopySymlink
    \/ CopySymlinkFails
    \/ CopyFile
    \/ CopyFileFails
    \/ SetPermissionsFails
    \/ CopyReturns

\* materialize has returned and is called again for the same keg with the
\* same store entry.
MaterializeAgain ==
    /\ call.op = "materialize"
    /\ cret # Calling
    /\ cret' = Calling
    /\ stack' = <<>>
    /\ cellar0' = cellar
    /\ name_dirs0' = name_dirs
    /\ UNCHANGED <<store_entry, cellar, name_dirs, call>>
    /\ UNCHANGED <<dlVars, cliVars>>

NextRematerialize == NextMaterialize \/ MaterializeAgain

\* --------------------------------------------------- Cellar::remove_keg
\* !keg_path.exists(): Ok(()), nothing is touched.
RemoveMissing ==
    /\ call.op = "remove_keg" /\ Running
    /\ ~has_keg(Key)
    /\ cret' = OkUnit
    /\ UNCHANGED <<store_entry, cellar, name_dirs, call, stack, cellar0, name_dirs0>>
    /\ UNCHANGED <<dlVars, cliVars>>

\* Variant of RemoveKeg that removes cellar/<name> with everything in it.
RemoveKegAndParent ==
    /\ call.op = "remove_keg" /\ Running
    /\ has_keg(Key)
    /\ cellar' = [k \in KegIds |-> IF k[1] = call.name THEN NoKeg ELSE cellar[k]]
    /\ name_dirs' = name_dirs \ {call.name}
    /\ cret' = OkUnit
    /\ UNCHANGED <<store_entry, call, stack, cellar0, name_dirs0>>
    /\ UNCHANGED <<dlVars, cliVars>>

\* remove_dir_all(keg_path), then remove_dir(parent), which removes the
\* directory when it is empty and fails (ignored) when it is not.
RemoveKeg ==
    /\ call.op = "remove_keg" /\ Running
    /\ has_keg(Key)
    /\ cellar' = [cellar EXCEPT ![Key] = NoKeg]
    /\ name_dirs' = IF is_empty_dir(cellar', call.name) THEN name_dirs \ {call.name}
                    ELSE name_dirs
    /\ cret' = OkUnit
    /\ UNCHANGED <<store_entry, call, stack, cellar0, name_dirs0>>
    /\ UNCHANGED <<dlVars, cliVars>>

\* remove_dir_all(keg_path) fails.
RemoveKegFails ==
    /\ call.op = "remove_keg" /\ Running
    /\ has_keg(Key)
    /\ cret' = StoreCorruption("failed to remove keg")
    /\ UNCHANGED <<store_entry, cellar, name_dirs, call, stack, cellar0, name_dirs0>>
    /\ UNCHANGED <<dlVars, cliVars>>

NextRemoveKeg ==
    \/ RemoveMissing
    \/ RemoveKeg
    \/ RemoveKegFails

\* ========================================================== command line
\* zb_cli: normalize_formula_name, the Install command (main.rs) and
\* prepare_execution (commands/run.rs).  A name is a sequence of tokens: the
\* blank, the slash, a letter, and the words homebrew and core.
MaxName == 7         \* tokens of a name given to normalize_formula_name
MaxTyped == 4        \* tokens of a formula argument given to a command

Tokens == {" ", "/", "a", "homebrew", "core"}
NamesUpTo(n) == UNION {[1..k -> Tokens] : k \in 0..n}

\* "homebrew/core"
HomebrewCore == <<"homebrew", "/", "core">>

\* str::trim_start, str::trim_end, str::trim
RECURSIVE trim_start(_)
trim_start(s) == IF s # <<>> /\ s[1] = " " THEN trim_start(Tail(s)) ELSE s

RECURSIVE trim_end(_)
trim_end(s) ==
    IF s # <<>> /\ s[Len(s)] = " " THEN trim_end(SubSeq(s, 1, Len(s) - 1)) ELSE s

trim(s) == trim_end(trim_start(s))

\* Option<(&str, &str)>
None == [some |-> FALSE, tap |-> <<>>, formula |-> <<>>]
Some(tap, rest) == [some |-> TRUE, tap |-> tap, formula |-> rest]

\* str::split_at the delimiter at position i
split_at(s, i) == Some(SubSeq(s, 1, i - 1), SubSeq(s, i + 1, Len(s)))

\* The positions of s that hold the delimiter.
Positions(s, delimiter) == {i \in 1..Len(s) : s[i] = delimiter}

\* str::split_once: split at the first delimiter
split_once(s, delimiter) ==
    IF Positions(s, delimiter) = {} THEN None
    ELSE split_at(s, CHOOSE i \in Positions(s, delimiter) :
                        \A j \in Positions(s, delimiter) : i <= j)

\* str::rsplit_once: split at the last delimiter
rsplit_once(s, delimiter) ==
    IF Positions(s, delimiter) = {} THEN None
    ELSE split_at(s, CHOOSE i \in Positions(s, delimiter) :
                        \A j \in Positions(s, delimiter) : i >= j)

\* Result<String, zb_core::Error>
NotNormalized == [kind |-> "None", name |-> <<>>]
OkName(n) == [kind |-> "Ok", name |-> n]
MissingFormula(n) == [kind |-> "MissingFormula", name |-> n]
UnsupportedTap(n) == [kind |-> "UnsupportedTap", name |-> n]

\* Variant of normalize_formula_name that splits at the first slash.
normalize_at_first_slash(name) ==
    LET trimmed == trim(name)
        split == split_once(trimmed, "/")
    IN  IF split.some
        THEN IF split.tap = HomebrewCore
             THEN IF split.formula = <<>> THEN MissingFormula(trimmed)
                  ELSE OkName(split.formula)
             ELSE UnsupportedTap(trimmed)
        ELSE OkName(trimmed)

normalize_formula_name(name) ==
    LET trimmed == trim(name)
        split == rsplit_once(trimmed, "/")
    IN  IF split.some
        THEN IF split.tap = HomebrewCore
             THEN IF split.formula = <<>> THEN MissingFormula(trimmed)
                  ELSE OkName(split.formula)
             ELSE UnsupportedTap(trimmed)
        ELSE OkName(trimmed)

\* Result<_, zb_core::Error> of a command
CliRunning == [kind |-> "Pending", name |-> <<>>]
CliOk == [kind |-> "Ok", name |-> <<>>]
CliErr(kind) == [kind |-> kind, name |-> <<>>]

\* The installed record of a formula that is not installed, and the path of
\* a command that returned none.
NoVersion == ""
NoBinPath == <<>>

\* The formula is not installed: no record, no keg, no link.
NothingInstalled ==
    /\ no_link = FALSE
    /\ installed_version = NoVersion
    /\ linked = FALSE
    /\ has_bin = FALSE
    /\ cli_path = NoBinPath
    /\ installed0 = FALSE

\* No command is running.
\* No line has been read.
NoReply == <<"EOF">>

\* None of the Migrate, Uninstall and Reset commands is run.
CmdIdle ==
    /\ yes = FALSE
    /\ answer = NoReply
    /\ packages = <<>>
    /\ failed_names = {}
    /\ success_count = 0
    /\ migrated = {}
    /\ kegs = <<>>
    /\ db = {}
    /\ idx = 0
    /\ root_exists = TRUE
    /\ prefix_exists = TRUE
    /\ exited = FALSE

CliIdle ==
    /\ CmdIdle
    /\ command = "none"
    /\ formula = <<>>
    /\ initialized = TRUE
    /\ installed = FALSE
    /\ cli_pc = "returned"
    /\ normalized = NotNormalized
    /\ calls = <<>>
    /\ cli_ret = CliRunning
    /\ NothingInstalled

\* normalize_formula_name is called with a name.
NormalizeInit ==
    /\ CmdIdle
    /\ command = "none"
    /\ formula \in NamesUpTo(MaxName)
    /\ initialized = TRUE
    /\ installed = FALSE
    /\ cli_pc = "normalize"
    /\ normalized = NotNormalized
    /\ calls = <<>>
    /\ cli_ret = CliRunning
    /\ NothingInstalled

\* `zb install <formula>` or `zb run <formula>` is started.
CliInit ==
    /\ CmdIdle
    /\ command \in {"install", "run"}
    /\ formula \in NamesUpTo(MaxTyped)
    /\ initialized \in (IF command = "install" THEN BOOLEAN ELSE {TRUE})
    /\ installed \in BOOLEAN
    /\ cli_pc = IF command = "install" THEN "start" ELSE "normalize"
    /\ normalized = NotNormalized
    /\ calls = <<>>
    /\ cli_ret = CliRunning
    /\ no_link \in (IF command = "install" THEN BOOLEAN ELSE {FALSE})
    /\ installed_version \in (IF installed THEN Versions ELSE {NoVersion})
    /\ has_bin \in (IF installed THEN BOOLEAN ELSE {FALSE})
    /\ linked \in (IF has_bin THEN BOOLEAN ELSE {FALSE})
    /\ cli_path = NoBinPath
    /\ installed0 = installed

\* The command returns r.
CliReturns(r) ==
    /\ cli_ret' = r
    /\ cli_pc' = "returned"

\* An operation of the installer is called with the name.
Called(op, n) == calls' = Append(calls, [op |-> op, arg |-> n])

\* installer.execute is called with a plan for the name and the link flag.
CalledExecute(n, do_link) ==
    calls' = Append(calls, [op |-> "execute", arg |-> n, link |-> do_link])

\* Installer::execute succeeds: a formula that is already installed is left
\* as it is; otherwise its keg is made, with or without a file at
\* bin/<name>, linked into the prefix when do_link says so, and its record
\* written with the plan's version.
Installs(do_link) ==
    IF installed
    THEN /\ UNCHANGED <<installed, installed_version, has_bin>>
         /\ linked' = (linked \/ (do_link /\ has_bin))
    ELSE /\ installed' = TRUE
         /\ installed_version' \in Versions
         /\ has_bin' \in BOOLEAN
         /\ linked' = (do_link /\ has_bin')

\* Installer::keg_path(name, version) joined with bin/<name>
bin_path(n, v) == keg_path(n, v) \o <<"bin", n>>

\* ------------------------------------------------------------ main.rs: run
\* ensure_init: nothing to do, or the user agrees and run_init sets up the
\* root and the prefix.
EnsureInit ==
    /\ cli_pc = "start"
    /\ initialized' = TRUE
    /\ cli_pc' = "create"
    /\ UNCHANGED <<command, formula, installed, normalized, calls, cli_ret>>
    /\ UNCHANGED <<installed0, no_link, installed_version, linked, has_bin, cli_path>>
    /\ UNCHANGED <<dlVars, fsVars, cmdVars>>

\* ensure_init: the user declines, or run_init fails.
EnsureInitFails ==
    /\ cli_pc = "start"
    /\ ~initialized
    /\ CliReturns(CliErr("StoreCorruption"))
    /\ UNCHANGED <<command, formula, initialized, installed, normalized, calls>>
    /\ UNCHANGED <<installed0, no_link, installed_version, linked, has_bin, cli_path>>
    /\ UNCHANGED <<dlVars, fsVars, cmdVars>>

\* create_installer(root, prefix, concurrency): the installer opens its
\* directories under the root and the prefix, which it may create.
CreateInstaller ==
    /\ cli_pc = "create"
    /\ cli_pc' = IF command = "install" THEN "normalize" ELSE "arm"
    /\ root_exists' \in {root_exists, TRUE}
    /\ prefix_exists' \in {prefix_exists, TRUE}
    /\ UNCHANGED <<command, formula, initialized, installed, normalized, calls, cli_ret>>
    /\ UNCHANGED <<installed0, no_link, installed_version, linked, has_bin, cli_path>>
    /\ UNCHANGED <<yes, answer, packages, failed_names, success_count, migrated, kegs, db,
                   idx, exited>>
    /\ UNCHANGED <<dlVars, fsVars>>

\* create_installer fails.
CreateInstallerFails ==
    /\ cli_pc = "create"
    /\ CliReturns(CliErr("StoreCorruption"))
    /\ UNCHANGED <<command, formula, initialized, installed, normalized, calls>>
    /\ UNCHANGED <<installed0, no_link, installed_version, linked, has_bin, cli_path>>
    /\ UNCHANGED <<dlVars, fsVars, cmdVars>>

\* normalize_formula_name(&formula), in the Install arm and in prepare_execution
Normalize ==
    /\ cli_pc = "normalize"
    /\ normalized' = normalize_formula_name(formula)
    /\ cli_pc' = "normalized"
    /\ UNCHANGED <<command, formula, initialized, installed, calls, cli_ret>>
    /\ UNCHANGED <<installed0, no_link, installed_version, linked, has_bin, cli_path>>
    /\ UNCHANGED <<dlVars, fsVars, cmdVars>>

\* ------------------------------------------- main.rs: Commands::Install
\* Variant of InstallRejected that plans the name as typed all the same.
InstallPlansAnyway ==
    /\ command = "install" /\ cli_pc = "normalized"
    /\ normalized.kind # "Ok"
    /\ Called("plan", formula)
    /\ cli_pc' = "planned"
    /\ UNCHANGED <<command, formula, initialized, installed, normalized, cli_ret>>
    /\ UNCHANGED <<installed0, no_link, installed_version, linked, has_bin, cli_path>>
    /\ UNCHANGED <<dlVars, fsVars, cmdVars>>

\* Err(e): suggest_homebrew, return Err(e).
InstallRejected ==
    /\ command = "install" /\ cli_pc = "normalized"
    /\ normalized.kind # "Ok"
    /\ CliReturns(normalized)
    /\ UNCHANGED <<command, formula, initialized, installed, normalized, calls>>
    /\ UNCHANGED <<installed0, no_link, installed_version, linked, has_bin, cli_path>>
    /\ UNCHANGED <<dlVars, fsVars, cmdVars>>

\* installer.plan(&normalized) gives a plan.
InstallPlan ==
    /\ command = "install" /\ cli_pc = "normalized"
    /\ normalized.kind = "Ok"
    /\ Called("plan", normalized.name)
    /\ cli_pc' = "planned"
    /\ UNCHANGED <<command, formula, initialized, installed, normalized, cli_ret>>
    /\ UNCHANGED <<installed0, no_link, installed_version, linked, has_bin, cli_path>>
    /\ UNCHANGED <<dlVars, fsVars, cmdVars>>

\* installer.plan(&normalized) gives an error.
InstallPlanFails ==
    /\ command = "install" /\ cli_pc = "normalized"
    /\ normalized.kind = "Ok"
    /\ Called("plan", normalized.name)
    /\ CliReturns(CliErr("MissingFormula"))
    /\ UNCHANGED <<command, formula, initialized, installed, normalized>>
    /\ UNCHANGED <<installed0, no_link, installed_version, linked, has_bin, cli_path>>
    /\ UNCHANGED <<dlVars, fsVars, cmdVars>>

\* installer.execute_with_progress(plan, ..) succeeds.
InstallExecute ==
    /\ command = "install" /\ cli_pc = "planned"
    /\ CalledExecute(normalized.name, ~no_link)
    /\ Installs(~no_link)
    /\ CliReturns(CliOk)
    /\ UNCHANGED <<command, formula, initialized, normalized>>
    /\ UNCHANGED <<installed0, no_link, cli_path>>
    /\ UNCHANGED <<dlVars, fsVars, cmdVars>>

\* installer.execute_with_progress(plan, ..) fails.
InstallExecuteFails ==
    /\ command = "install" /\ cli_pc = "planned"
    /\ CalledExecute(normalized.name, ~no_link)
    /\ CliReturns(CliErr("NetworkFailure"))
    /\ UNCHANGED <<command, formula, initialized, installed, normalized>>
    /\ UNCHANGED <<installed0, no_link, installed_version, linked, has_bin, cli_path>>
    /\ UNCHANGED <<dlVars, fsVars, cmdVars>>

\* ------------------------------------- commands/run.rs: prepare_execution
\* normalize_formula_name(formula)?: the error is returned.
PrepareRejected ==
    /\ command = "run" /\ cli_pc = "normalized"
    /\ normalized.kind # "Ok"
    /\ CliReturns(normalized)
    /\ UNCHANGED <<command, formula, initialized, installed, normalized, calls>>
    /\ UNCHANGED <<installed0, no_link, installed_version, linked, has_bin, cli_path>>
    /\ UNCHANGED <<dlVars, fsVars, cmdVars>>

\* Variant of IsInstalled that installs whatever is_installed answers.
IsInstalledIgnored ==
    /\ command = "run" /\ cli_pc = "normalized"
    /\ normalized.kind = "Ok"
    /\ Called("is_installed", normalized.name)
    /\ cli_pc' = "plan"
    /\ UNCHANGED <<command, formula, initialized, installed, normalized, cli_ret>>
    /\ UNCHANGED <<installed0, no_link, installed_version, linked, has_bin, cli_path>>
    /\ UNCHANGED <<dlVars, fsVars, cmdVars>>

\* installer.is_installed(&normalized)
IsInstalled ==
    /\ command = "run" /\ cli_pc = "normalized"
    /\ normalized.kind = "Ok"
    /\ Called("is_installed", normalized.name)
    /\ cli_pc' = IF installed THEN "get" ELSE "plan"
    /\ UNCHANGED <<command, formula, initialized, installed, normalized, cli_ret>>
    /\ UNCHANGED <<installed0, no_link, installed_version, linked, has_bin, cli_path>>
    /\ UNCHANGED <<dlVars, fsVars, cmdVars>>

\* installer.plan(&normalized) gives a plan.
PreparePlan ==
    /\ command = "run" /\ cli_pc = "plan"
    /\ Called("plan", normalized.name)
    /\ cli_pc' = "execute"
    /\ UNCHANGED <<command, formula, initialized, installed, normalized, cli_ret>>
    /\ UNCHANGED <<installed0, no_link, installed_version, linked, has_bin, cli_path>>
    /\ UNCHANGED <<dlVars, fsVars, cmdVars>>

\* The errors installer.plan and installer.execute may give.
PlanErrors == {"MissingFormula", "NetworkFailure"}
ExecuteErrors == {"NetworkFailure", "ChecksumMismatch"}

\* An operation of the installer is called with the name and gives Err(e).
CalledErr(op, n, e) == calls' = Append(calls, [op |-> op, arg |-> n, err |-> e])

\* Variant of PreparePlanFails that reports the error as an ExecutionError.
PreparePlanFailsWrapped ==
    /\ command = "run" /\ cli_pc = "plan"
    /\ \E e \in PlanErrors : CalledErr("plan", normalized.name, e)
    /\ CliReturns(CliErr("ExecutionError"))
    /\ UNCHANGED <<command, formula, initialized, installed, normalized>>
    /\ UNCHANGED <<installed0, no_link, installed_version, linked, has_bin, cli_path>>
    /\ UNCHANGED <<dlVars, fsVars, cmdVars>>

\* installer.plan(&normalized) gives an error.
PreparePlanFails ==
    /\ command = "run" /\ cli_pc = "plan"
    /\ \E e \in PlanErrors :
          /\ CalledErr("plan", normalized.name, e)
          /\ CliReturns(CliErr(e))
    /\ UNCHANGED <<command, formula, initialized, installed, normalized>>
    /\ UNCHANGED <<installed0, no_link, installed_version, linked, has_bin, cli_path>>
    /\ UNCHANGED <<dlVars, fsVars, cmdVars>>

\* Variant of PrepareExecute that has the formula linked into the prefix.
PrepareExecuteLinks ==
    /\ command = "run" /\ cli_pc = "execute"
    /\ CalledExecute(normalized.name, TRUE)
    /\ Installs(TRUE)
    /\ cli_pc' = "get"
    /\ UNCHANGED <<command, formula, initialized, normalized, cli_ret>>
    /\ UNCHANGED <<installed0, no_link, cli_path>>
    /\ UNCHANGED <<dlVars, fsVars, cmdVars>>

\* installer.execute(plan, false) succeeds.
PrepareExecute ==
    /\ command = "run" /\ cli_pc = "execute"
    /\ CalledExecute(normalized.name, FALSE)
    /\ Installs(FALSE)
    /\ cli_pc' = "get"
    /\ UNCHANGED <<command, formula, initialized, normalized, cli_ret>>
    /\ UNCHANGED <<installed0, no_link, cli_path>>
    /\ UNCHANGED <<dlVars, fsVars, cmdVars>>

\* installer.execute(plan, false) fails.
PrepareExecuteFails ==
    /\ command = "run" /\ cli_pc = "execute"
    /\ \E e \in ExecuteErrors :
          /\ CalledErr("execute", normalized.name, e)
          /\ CliReturns(CliErr(e))
    /\ UNCHANGED <<command, formula, initialized, installed, normalized>>
    /\ UNCHANGED <<installed0, no_link, installed_version, linked, has_bin, cli_path>>
    /\ UNCHANGED <<dlVars, fsVars, cmdVars>>

\* installer.get_installed(&normalized), NotInstalled when it gives None.
GetInstalled ==
    /\ command = "run" /\ cli_pc = "get"
    /\ Called("get_installed", normalized.name)
    /\ IF installed THEN cli_pc' = "bin" /\ UNCHANGED cli_ret
       ELSE CliReturns(CliErr("NotInstalled"))
    /\ UNCHANGED <<command, formula, initialized, installed, normalized>>
    /\ UNCHANGED <<installed0, no_link, installed_version, linked, has_bin, cli_path>>
    /\ UNCHANGED <<dlVars, fsVars, cmdVars>>

\* bin_path does not exist: ExecutionError.
BinMissing ==
    /\ command = "run" /\ cli_pc = "bin"
    /\ ~has_bin
    /\ CliReturns(CliErr("ExecutionError"))
    /\ UNCHANGED <<command, formula, initialized, installed, normalized, calls>>
    /\ UNCHANGED <<installed0, no_link, installed_version, linked, has_bin, cli_path>>
    /\ UNCHANGED <<dlVars, fsVars, cmdVars>>

\* bin_path exists: Ok(bin_path).
BinFound ==
    /\ command = "run" /\ cli_pc = "bin"
    /\ has_bin
    /\ CliReturns(CliOk)
    /\ cli_path' = bin_path(normalized.name, installed_version)
    /\ UNCHANGED <<command, formula, initialized, installed, normalized, calls>>
    /\ UNCHANGED <<installed0, no_link, installed_version, linked, has_bin>>
    /\ UNCHANGED <<dlVars, fsVars, cmdVars>>

\* Another zb process uninstalls the formula while prepare_execution runs:
\* its links, its keg and its installed record are removed.
UninstallElsewhere ==
    /\ command = "run" /\ cli_pc # "returned"
    /\ installed
    /\ installed' = FALSE
    /\ installed_version' = NoVersion
    /\ linked' = FALSE
    /\ has_bin' = FALSE
    /\ UNCHANGED <<command, formula, initialized, cli_pc, normalized, calls, cli_ret>>
    /\ UNCHANGED <<installed0, no_link, cli_path>>
    /\ UNCHANGED <<dlVars, fsVars, cmdVars>>

NextNormalize == Normalize

NextCli ==
    \/ EnsureInit
    \/ EnsureInitFails
    \/ CreateInstaller
    \/ CreateInstallerFails
    \/ Normalize
    \/ InstallRejected
    \/ InstallPlan
    \/ InstallPlanFails
    \/ InstallExecute
    \/ InstallExecuteFails
    \/ PrepareRejected
    \/ IsInstalled
    \/ PreparePlan
    \/ PreparePlanFails
    \/ PrepareExecute
    \/ PrepareExecuteFails
    \/ GetInstalled
    \/ BinMissing
    \/ BinFound

\* ============================================= Migrate, Uninstall, Reset
MaxPkgs == 2         \* core formulas Homebrew may list
MaxKegs == 3         \* rows the installed table may hold
MaxReply == 2        \* tokens of a line typed at a prompt

PkgNames == FormulaNames \cup {"baz"}

\* packages.formulas: the names `brew` lists, in its order.
PackageLists == UNION {[1..n -> PkgNames] : n \in 0..MaxPkgs}

\* A line read from stdin; " " stands for any whitespace, the newline included.
\* The empty line is what read_line leaves at end of input.
ReplyTokens == {"y", "Y", "n", " "}
Replies == UNION {[1..n -> ReplyTokens] : n \in 0..MaxReply}

\* u8::to_ascii_lowercase, str::eq_ignore_ascii_case
to_ascii_lowercase(c) == IF c = "Y" THEN "y" ELSE c
eq_ignore_ascii_case(a, b) ==
    /\ Len(a) = Len(b)
    /\ \A k \in 1..Len(a) : to_ascii_lowercase(a[k]) = to_ascii_lowercase(b[k])

\* input.trim().eq_ignore_ascii_case("y")
confirms(line) == eq_ignore_ascii_case(trim(line), <<"y">>)

\* `if !yes { print; read_line; if !confirms { return Ok(()) } }`, then the
\* command goes on at pc next with its loop index at 0.
Confirm(next) ==
    IF yes
    THEN /\ cli_pc' = next
         /\ UNCHANGED <<answer, cli_ret>>
    ELSE \E line \in Replies :
            /\ answer' = line
            /\ IF confirms(line)
               THEN cli_pc' = next /\ UNCHANGED cli_ret
               ELSE CliReturns(CliOk)

\* `zb migrate [--yes]` is started; Homebrew has the core formulas packages.
MigrateInit ==
    /\ command = "migrate"
    /\ formula = <<>>
    /\ initialized \in BOOLEAN
    /\ installed = FALSE
    /\ cli_pc = "start"
    /\ normalized = NotNormalized
    /\ calls = <<>>
    /\ cli_ret = CliRunning
    /\ NothingInstalled
    /\ yes \in BOOLEAN
    /\ answer = NoReply
    /\ packages \in PackageLists
    /\ failed_names = {}
    /\ success_count = 0
    /\ migrated = {}
    /\ kegs = <<>>
    /\ db = {}
    /\ idx = 0
    /\ root_exists = TRUE
    /\ prefix_exists = TRUE
    /\ exited = FALSE

\* ------------------------------------------- main.rs: Commands::Migrate
\* zb_io::get_homebrew_packages() fails.
MigrateListFails ==
    /\ command = "migrate" /\ cli_pc = "arm"
    /\ CliReturns(CliErr("StoreCorruption"))
    /\ UNCHANGED <<command, initialized, calls, formulaVars, cmdVars>>
    /\ UNCHANGED <<dlVars, fsVars>>

\* Homebrew has no package, or no core formula: Ok(()).
MigrateNothing ==
    /\ command = "migrate" /\ cli_pc = "arm"
    /\ packages = <<>>
    /\ CliReturns(CliOk)
    /\ UNCHANGED <<command, initialized, calls, formulaVars, cmdVars>>
    /\ UNCHANGED <<dlVars, fsVars>>

\* "Continue with migration? [y/N]"
MigrateConfirm ==
    /\ command = "migrate" /\ cli_pc = "arm"
    /\ packages # <<>>
    /\ Confirm("migrating")
    /\ UNCHANGED <<command, initialized, calls, formulaVars>>
    /\ UNCHANGED <<yes, packages, failed_names, success_count, migrated, kegs, db, idx,
                   root_exists, prefix_exists, exited>>
    /\ UNCHANGED <<dlVars, fsVars>>

\* One turn of the install loop: installer.plan(&pkg.name), then
\* installer.execute(plan, true); a failure of either pushes the name to
\* `failed`, success of both adds one to success_count.
MigrateOne ==
    /\ command = "migrate" /\ cli_pc = "migrating"
    /\ idx < Len(packages)
    /\ LET name == packages[idx + 1]
           plan == [op |-> "plan", arg |-> name]
           execute == [op |-> "execute", arg |-> name, link |-> TRUE]
       IN  \/ /\ \E e \in PlanErrors : CalledErr("plan", name, e)
              /\ failed_names' = failed_names \cup {name}
              /\ UNCHANGED <<success_count, migrated, db>>
           \/ /\ \E e \in ExecuteErrors :
                    calls' = calls \o <<plan, [op |-> "execute", arg |-> name, err |-> e]>>
              /\ failed_names' = failed_names \cup {name}
              /\ UNCHANGED <<success_count, migrated, db>>
           \/ /\ calls' = calls \o <<plan, execute>>
              /\ success_count' = success_count + 1
              /\ migrated' = migrated \cup {idx + 1}
              /\ db' = db \cup {name}
              /\ UNCHANGED failed_names
    /\ idx' = idx + 1
    /\ UNCHANGED <<command, initialized, cli_pc, cli_ret, formulaVars>>
    /\ UNCHANGED <<yes, answer, packages, kegs, root_exists, prefix_exists, exited>>
    /\ UNCHANGED <<dlVars, fsVars>>

\* success_count == 0: "Skipping uninstall from Homebrew", Ok(()).
MigrateSkipsUninstall ==
    /\ command = "migrate" /\ cli_pc = "migrating"
    /\ idx = Len(packages)
    /\ success_count = 0
    /\ CliReturns(CliOk)
    /\ UNCHANGED <<command, initialized, calls, formulaVars, cmdVars>>
    /\ UNCHANGED <<dlVars, fsVars>>

\* "Uninstall n formula(s) from Homebrew? [y/N]"
MigrateConfirmUninstall ==
    /\ command = "migrate" /\ cli_pc = "migrating"
    /\ idx = Len(packages)
    /\ success_count # 0
    /\ Confirm("brewing")
    /\ idx' = IF cli_pc' = "brewing" THEN 0 ELSE idx
    /\ UNCHANGED <<command, initialized, calls, formulaVars>>
    /\ UNCHANGED <<yes, packages, failed_names, success_count, migrated, kegs, db,
                   root_exists, prefix_exists, exited>>
    /\ UNCHANGED <<dlVars, fsVars>>

\* Variant of MigrateBrewUninstall that does not look at `failed`.
MigrateBrewUninstallsAll ==
    /\ command = "migrate" /\ cli_pc = "brewing"
    /\ idx < Len(packages)
    /\ Called("brew uninstall", packages[idx + 1])
    /\ idx' = idx + 1
    /\ UNCHANGED <<command, initialized, cli_pc, cli_ret, formulaVars>>
    /\ UNCHANGED <<yes, answer, packages, failed_names, success_count, migrated, kegs, db,
                   root_exists, prefix_exists, exited>>
    /\ UNCHANGED <<dlVars, fsVars>>

\* One turn of the uninstall loop: a name in `failed` is skipped, for any
\* other `brew uninstall [--force] <name>` is run, whatever its status.
MigrateBrewUninstall ==
    /\ command = "migrate" /\ cli_pc = "brewing"
    /\ idx < Len(packages)
    /\ IF packages[idx + 1] \in failed_names
       THEN UNCHANGED calls
       ELSE Called("brew uninstall", packages[idx + 1])
    /\ idx' = idx + 1
    /\ UNCHANGED <<command, initialized, cli_pc, cli_ret, formulaVars>>
    /\ UNCHANGED <<yes, answer, packages, failed_names, success_count, migrated, kegs, db,
                   root_exists, prefix_exists, exited>>
    /\ UNCHANGED <<dlVars, fsVars>>

\* The uninstall loop is over: the counts are printed, Ok(()).
MigrateDone ==
    /\ command = "migrate" /\ cli_pc = "brewing"
    /\ idx = Len(packages)
    /\ CliReturns(CliOk)
    /\ UNCHANGED <<command, initialized, calls, formulaVars, cmdVars>>
    /\ UNCHANGED <<dlVars, fsVars>>

NextMigrate ==
    \/ EnsureInit
    \/ EnsureInitFails
    \/ CreateInstaller
    \/ CreateInstallerFails
    \/ MigrateListFails
    \/ MigrateNothing
    \/ MigrateConfirm
    \/ MigrateOne
    \/ MigrateSkipsUninstall
    \/ MigrateConfirmUninstall
    \/ MigrateBrewUninstall
    \/ MigrateDone

\* ----------------------------------- main.rs: Commands::Uninstall (all)
\* The orders in which list_installed may give the rows of the table.
Listings(names) ==
    {l \in [1..Cardinality(names) -> names] : \A i, j \in 1..Cardinality(names) : l[i] = l[j] => i = j}

\* The errors installer.list_installed and installer.uninstall may give.
UninstallErrors == {"NotInstalled", "StoreCorruption"}

\* `zb uninstall` with no formula name is started.
UninstallInit ==
    /\ command = "uninstall"
    /\ formula = <<>>
    /\ initialized \in BOOLEAN
    /\ installed = FALSE
    /\ cli_pc = "start"
    /\ normalized = NotNormalized
    /\ calls = <<>>
    /\ cli_ret = CliRunning
    /\ NothingInstalled
    /\ yes = FALSE
    /\ answer = NoReply
    /\ packages = <<>>
    /\ failed_names = {}
    /\ success_count = 0
    /\ migrated = {}
    /\ kegs = <<>>
    /\ db \in {d \in SUBSET PkgNames : Cardinality(d) <= MaxKegs}
    /\ idx = 0
    /\ root_exists = TRUE
    /\ prefix_exists = TRUE
    /\ exited = FALSE

\* installer.list_installed()? fails.
UninstallListFails ==
    /\ command = "uninstall" /\ cli_pc = "arm"
    /\ \E e \in UninstallErrors : CliReturns(CliErr(e))
    /\ UNCHANGED <<command, initialized, calls, formulaVars, cmdVars>>
    /\ UNCHANGED <<dlVars, fsVars>>

\* installed.is_empty(): "No formulas installed.", Ok(()).
UninstallNothing ==
    /\ command = "uninstall" /\ cli_pc = "arm"
    /\ db = {}
    /\ CliReturns(CliOk)
    /\ UNCHANGED <<command, initialized, calls, formulaVars, cmdVars>>
    /\ UNCHANGED <<dlVars, fsVars>>

\* let installed = installer.list_installed()?, not empty.
UninstallList ==
    /\ command = "uninstall" /\ cli_pc = "arm"
    /\ db # {}
    /\ kegs' \in Listings(db)
    /\ cli_pc' = "uninstalling"
    /\ UNCHANGED <<command, initialized, calls, cli_ret, formulaVars>>
    /\ UNCHANGED <<yes, answer, packages, failed_names, success_count, migrated, db, idx,
                   root_exists, prefix_exists, exited>>
    /\ UNCHANGED <<dlVars, fsVars>>

\* installer.uninstall(&keg.name)? succeeds: the row is gone.
UninstallOne ==
    /\ command = "uninstall" /\ cli_pc = "uninstalling"
    /\ idx < Len(kegs)
    /\ Called("uninstall", kegs[idx + 1])
    /\ db' = db \ {kegs[idx + 1]}
    /\ idx' = idx + 1
    /\ UNCHANGED <<command, initialized, cli_pc, cli_ret, formulaVars>>
    /\ UNCHANGED <<yes, answer, packages, failed_names, success_count, migrated, kegs,
                   root_exists, prefix_exists, exited>>
    /\ UNCHANGED <<dlVars, fsVars>>

\* Variant of UninstallOneFails that goes on with the next formula.
UninstallOneFailsGoesOn ==
    /\ command = "uninstall" /\ cli_pc = "uninstalling"
    /\ idx < Len(kegs)
    /\ \E e \in UninstallErrors : CalledErr("uninstall", kegs[idx + 1], e)
    /\ idx' = idx + 1
    /\ UNCHANGED <<command, initialized, cli_pc, cli_ret, formulaVars>>
    /\ UNCHANGED <<yes, answer, packages, failed_names, success_count, migrated, kegs, db,
                   root_exists, prefix_exists, exited>>
    /\ UNCHANGED <<dlVars, fsVars>>

\* installer.uninstall(&keg.name)? fails: the row stays, `?` returns the error.
UninstallOneFails ==
    /\ command = "uninstall" /\ cli_pc = "uninstalling"
    /\ idx < Len(kegs)
    /\ \E e \in UninstallErrors :
          /\ CalledErr("uninstall", kegs[idx + 1], e)
          /\ CliReturns(CliErr(e))
    /\ UNCHANGED <<command, initialized, formulaVars, cmdVars>>
    /\ UNCHANGED <<dlVars, fsVars>>

\* The loop is over: "Uninstalled all packages", Ok(()).
UninstallDone ==
    /\ command = "uninstall" /\ cli_pc = "uninstalling"
    /\ idx = Len(kegs)
    /\ CliReturns(CliOk)
    /\ UNCHANGED <<command, initialized, calls, formulaVars, cmdVars>>
    /\ UNCHANGED <<dlVars, fsVars>>

NextUninstall ==
    \/ EnsureInit
    \/ EnsureInitFails
    \/ CreateInstaller
    \/ CreateInstallerFails
    \/ UninstallListFails
    \/ UninstallNothing
    \/ UninstallList
    \/ UninstallOne
    \/ UninstallOneFails
    \/ UninstallDone

\* ------------------------------------------- main.rs: Commands::Reset
\* for dir in [&root, &prefix]
ResetDirs == <<"root", "prefix">>

\* dir.exists() for a directory of the loop.
DirExists(d) == IF d = "root" THEN root_exists ELSE prefix_exists

\* `zb reset [--yes]` is started: ensure_init is skipped.
ResetInit ==
    /\ command = "reset"
    /\ formula = <<>>
    /\ initialized \in BOOLEAN
    /\ installed = FALSE
    /\ cli_pc = "create"
    /\ normalized = NotNormalized
    /\ calls = <<>>
    /\ cli_ret = CliRunning
    /\ NothingInstalled
    /\ yes \in BOOLEAN
    /\ answer = NoReply
    /\ packages = <<>>
    /\ failed_names = {}
    /\ success_count = 0
    /\ migrated = {}
    /\ kegs = <<>>
    /\ db = {}
    /\ idx = 0
    /\ root_exists \in BOOLEAN
    /\ prefix_exists \in BOOLEAN
    /\ initialized => root_exists /\ prefix_exists
    /\ exited = FALSE

\* !root.exists() && !prefix.exists(): "Nothing to reset", Ok(()).
ResetNothing ==
    /\ command = "reset" /\ cli_pc = "arm"
    /\ ~root_exists /\ ~prefix_exists
    /\ CliReturns(CliOk)
    /\ UNCHANGED <<command, initialized, calls, formulaVars, cmdVars>>
    /\ UNCHANGED <<dlVars, fsVars>>

\* Variant of ResetConfirm that goes on whatever the answer is.
ResetWithoutConfirm ==
    /\ command = "reset" /\ cli_pc = "arm"
    /\ root_exists \/ prefix_exists
    /\ IF yes THEN UNCHANGED answer ELSE answer' \in Replies
    /\ cli_pc' = "removing"
    /\ UNCHANGED <<command, initialized, calls, cli_ret, formulaVars>>
    /\ UNCHANGED <<yes, packages, failed_names, success_count, migrated, kegs, db, idx,
                   root_exists, prefix_exists, exited>>
    /\ UNCHANGED <<dlVars, fsVars>>

\* if !yes { "Continue? [y/N]", read_line; "Aborted." unless the answer is y }
ResetConfirm ==
    /\ command = "reset" /\ cli_pc = "arm"
    /\ root_exists \/ prefix_exists
    /\ Confirm("removing")
    /\ UNCHANGED <<command, initialized, calls, formulaVars>>
    /\ UNCHANGED <<yes, packages, failed_names, success_count, migrated, kegs, db, idx,
                   root_exists, prefix_exists, exited>>
    /\ UNCHANGED <<dlVars, fsVars>>

\* if !dir.exists() { continue }
ResetSkip ==
    /\ command = "reset" /\ cli_pc = "removing"
    /\ idx < Len(ResetDirs)
    /\ ~DirExists(ResetDirs[idx + 1])
    /\ idx' = idx + 1
    /\ UNCHANGED <<command, initialized, calls, cli_pc, cli_ret, formulaVars>>
    /\ UNCHANGED <<yes, answer, packages, failed_names, success_count, migrated, kegs, db,
                   root_exists, prefix_exists, exited>>
    /\ UNCHANGED <<dlVars, fsVars>>

\* remove_dir_all(dir), or `sudo rm -rf` after it, removes the directory;
\* a prefix that lies under the root goes with the root.
ResetRemove ==
    /\ command = "reset" /\ cli_pc = "removing"
    /\ idx < Len(ResetDirs)
    /\ DirExists(ResetDirs[idx + 1])
    /\ Called("remove", ResetDirs[idx + 1])
    /\ IF ResetDirs[idx + 1] = "root"
       THEN root_exists' = FALSE /\ prefix_exists' \in {prefix_exists, FALSE}
       ELSE prefix_exists' = FALSE /\ UNCHANGED root_exists
    /\ initialized' = FALSE
    /\ idx' = idx + 1
    /\ UNCHANGED <<command, cli_pc, cli_ret, formulaVars>>
    /\ UNCHANGED <<yes, answer, packages, failed_names, success_count, migrated, kegs, db,
                   exited>>
    /\ UNCHANGED <<dlVars, fsVars>>

\* remove_dir_all and `sudo rm -rf` both fail: std::process::exit(1).
ResetRemoveFails ==
    /\ command = "reset" /\ cli_pc = "removing"
    /\ idx < Len(ResetDirs)
    /\ DirExists(ResetDirs[idx + 1])
    /\ CalledErr("remove", ResetDirs[idx + 1], "exit")
    /\ exited' = TRUE
    /\ cli_pc' = "exited"
    /\ UNCHANGED <<command, initialized, cli_ret, formulaVars>>
    /\ UNCHANGED <<yes, answer, packages, failed_names, success_count, migrated, kegs, db, idx,
                   root_exists, prefix_exists>>
    /\ UNCHANGED <<dlVars, fsVars>>

\* run_init(&root, &prefix) succeeds: every directory is made; Ok(()).
ResetRunInit ==
    /\ command = "reset" /\ cli_pc = "removing"
    /\ idx = Len(ResetDirs)
    /\ Called("run_init", "root")
    /\ root_exists' = TRUE
    /\ prefix_exists' = TRUE
    /\ initialized' = TRUE
    /\ CliReturns(CliOk)
    /\ UNCHANGED <<command, formulaVars>>
    /\ UNCHANGED <<yes, answer, packages, failed_names, success_count, migrated, kegs, db, idx,
                   exited>>
    /\ UNCHANGED <<dlVars, fsVars>>

\* run_init fails at one of its directories, at chown or in add_to_path:
\* the directories made before that stay; Err(StoreCorruption).
ResetRunInitFails ==
    /\ command = "reset" /\ cli_pc = "removing"
    /\ idx = Len(ResetDirs)
    /\ CalledErr("run_init", "root", "StoreCorruption")
    /\ root_exists' \in {root_exists, TRUE}
    /\ prefix_exists' \in {prefix_exists, root_exists'}
    /\ CliReturns(CliErr("StoreCorruption"))
    /\ UNCHANGED <<command, initialized, formulaVars>>
    /\ UNCHANGED <<yes, answer, packages, failed_names, success_count, migrated, kegs, db, idx,
                   exited>>
    /\ UNCHANGED <<dlVars, fsVars>>

NextReset ==
    \/ CreateInstaller
    \/ CreateInstallerFails
    \/ ResetNothing
    \/ ResetConfirm
    \/ ResetSkip
    \/ ResetRemove
    \/ ResetRemoveFails
    \/ ResetRunInit
    \/ ResetRunInitFails

\* ======================================================= specifications
\* No download batch is running.
DlIdle ==
    /\ Init
    /\ requests = <<>>
    /\ concurrency = 0
    /\ cached0 = {}

\* One batch of download_all.
InitDownload == Init /\ FsIdle /\ CliIdle
Spec == InitDownload /\ [][Next]_vars

\* One batch of download_all that the caller may abort.
SpecAbort == InitDownload /\ [][NextAbort]_vars

\* A step of task i: the runtime polls a spawned task that can make progress,
\* and the server and the disk answer every call.
TaskStep(i) ==
    /\ i \in Tasks
    /\ \/ Subscribe(i) \/ Register(i) \/ Recv(i) \/ Acquire(i)
       \/ CacheHit(i) \/ SendGet(i) \/ Respond(i) \/ SendFailed(i) \/ BadStatus(i)
       \/ StartWrite(i) \/ StartWriteFails(i)
       \/ Chunk(i) \/ ChunkWriteFails(i) \/ ChunkReadFails(i) \/ StreamEnd(i)
       \/ VerifyMismatch(i) \/ VerifyCommit(i)
       \/ Publish(i) \/ Release(i)

\* A step of download_all: the runtime polls it when the handle it awaits
\* is ready.
JoinStep == JoinOk \/ JoinErr \/ ReturnOk

\* One batch of download_all on a runtime that schedules fairly, with a
\* server whose answers end.
Fairness ==
    /\ \A i \in 1..MaxReq : WF_vars(TaskStep(i))
    /\ WF_vars(JoinStep)
SpecFair == InitDownload /\ [][Next]_vars /\ Fairness

\* One call of Cellar::materialize.
InitMaterialize == DlIdle /\ MaterializeInit /\ CliIdle
SpecMaterialize == InitMaterialize /\ [][NextMaterialize]_vars

\* Calls of Cellar::materialize for one keg that did not exist at first,
\* one after the other.
InitRematerialize == InitMaterialize /\ ~has_keg(Key)
SpecRematerialize == InitRematerialize /\ [][NextRematerialize]_vars

\* One call of Cellar::remove_keg.
InitRemoveKeg == DlIdle /\ RemoveKegInit /\ CliIdle
SpecRemoveKeg == InitRemoveKeg /\ [][NextRemoveKeg]_vars

\* One call of normalize_formula_name.
InitNormalize == DlIdle /\ FsIdle /\ NormalizeInit
SpecNormalize == InitNormalize /\ [][NextNormalize]_vars

\* One run of the Install command or of prepare_execution.
InitCli == DlIdle /\ FsIdle /\ CliInit
SpecCli == InitCli /\ [][NextCli]_vars

\* One run of prepare_execution on a root that other zb processes use too.
NextShared == NextCli \/ UninstallElsewhere
SpecShared == InitCli /\ [][NextShared]_vars

\* One run of the Migrate command.
InitMigrate == DlIdle /\ FsIdle /\ MigrateInit
SpecMigrate == InitMigrate /\ [][NextMigrate]_vars

\* One run of the Uninstall command without a formula name.
InitUninstall == DlIdle /\ FsIdle /\ UninstallInit
SpecUninstall == InitUninstall /\ [][NextUninstall]_vars

\* One run of the Reset command.
InitReset == DlIdle /\ FsIdle /\ ResetInit
SpecReset == InitReset /\ [][NextReset]_vars

\* ------------------------------------------------------------- claims
\* Tasks that hold a semaphore permit.
Holders == {i \in Tasks : pc[i] \in {"download", "sending", "responded", "stream",
                                     "verify", "publish", "release"}}

\* Tasks whose network GET is in progress.
Getting == {i \in Tasks : pc[i] \in {"sending", "responded", "stream", "verify"}}

\* C1: for any digest d, at most one network GET for d is issued while the
\* batch is live (download_all has not returned), however many requests
\* reference d and whether the download succeeds or fails.
C1_AtMostOneGet ==
    \A d \in Digests : ret = NotReturned => gets[d] <= 1

\* C2: the tasks holding a permit, and so the GETs in progress, never number
\* more than the concurrency the downloader was built with.
C2_BoundedParallelism ==
    /\ Cardinality(Holders) <= concurrency
    /\ Cardinality(Getting) <= concurrency

\* C2 witness: every permit is in use, a GET is in progress and another task
\* waits for a permit.
C2_Witness ==
    /\ concurrency >= 1
    /\ Cardinality(Holders) = concurrency
    /\ Getting # {}
    /\ \E i \in Tasks : pc[i] = "acquire"

\* Every request of the batch asks for digest d.
OnlyRequests(d) == Len(requests) >= 1 /\ \A i \in Tasks : sha(i) = d

\* C3: a batch of N >= 1 requests for one digest d that is not cached, served
\* by a server whose body hashes to d, causes exactly one GET and returns N
\* times the path of the committed blob, which exists.
C3_DuplicatesFetchOnce ==
    \A d \in Digests :
        (OnlyRequests(d) /\ d \notin cached0 /\ d \notin spoiled) =>
            /\ gets[d] <= 1
            /\ ret # NotReturned =>
                  /\ ret.status = "Ok"
                  /\ ret.paths = [i \in Tasks |-> blob_path(d)]
                  /\ gets[d] = 1
                  /\ has_blob(d)
                  /\ Sha256(blobs[d]) = d

\* C3 witness: two requests for the same uncached digest have been answered
\* with one GET.
C3_Witness ==
    \E d \in Digests :
        /\ requests = <<d, d>>
        /\ d \notin cached0 /\ d \notin spoiled
        /\ ret.status = "Ok"
        /\ gets[d] = 1

\* A task's output, when it has one that nobody has taken yet.
Finished(i) == pc[i] = "done" /\ result[i].kind \notin {"Pending", "Gone"}

\* C4: all requests of a batch that reference one digest complete with the
\* same outcome: all Ok with the same path, or all with an error.
C4_SameOutcome ==
    \A i, j \in Tasks :
        (sha(i) = sha(j) /\ Finished(i) /\ Finished(j)) =>
            \/ result[i].kind = "Ok" /\ result[j] = result[i]
            \/ result[i].kind # "Ok" /\ result[j].kind # "Ok"

\* C5: every file under a canonical blob name holds content whose SHA-256 is
\* that name's digest; an unverified or partial body is never committed.
C5_BlobsVerified ==
    \A d \in Digests : has_blob(d) => Sha256(blobs[d]) = d

\* C5 witness: a blob was committed by this batch while a download of another
\* digest was served badly and one is still streaming into its .part file.
C5_Witness ==
    \E d, e \in Digests :
        /\ d \notin cached0 /\ has_blob(d)
        /\ e # d /\ (e \in spoiled \/ parts[e] # NoFile)

\* C6: when the body hashes to another digest than the expected one, download
\* returns ChecksumMismatch{expected, actual}, and neither the canonical blob
\* nor the .part file of the expected digest exists afterwards.
C6_MismatchCleansUp ==
    [][\A i \in Tasks :
          (pc[i] = "verify" /\ actual_hash(i) # sha(i) /\ pc'[i] # "verify") =>
              /\ dresult'[i] = ChecksumMismatch(sha(i), Sha256(hasher[i]))
              /\ blobs'[sha(i)] = NoFile
              /\ parts'[sha(i)] = NoFile]_vars

\* C6 witness: a download has just returned ChecksumMismatch.
C6_Witness ==
    \E i \in Tasks :
        /\ pc[i] = "publish"
        /\ dresult[i].kind = "ChecksumMismatch"
        /\ dresult[i].expected = sha(i)
        /\ dresult[i].actual # sha(i)

\* C7: when the blob cache already has the expected digest, download returns
\* the canonical path with no GET and no writer; the cache is unchanged.
C7_CacheHitNoNetwork ==
    [][\A i \in Tasks :
          (pc[i] = "download" /\ has_blob(sha(i)) /\ pc'[i] # "download") =>
              /\ dresult'[i] = Ok(blob_path(sha(i)))
              /\ pc'[i] = "publish"
              /\ gets' = gets
              /\ blobs' = blobs
              /\ parts' = parts]_vars

\* C7 witness: a download of a cached digest has returned without any GET.
C7_Witness ==
    \E i \in Tasks :
        /\ sha(i) \in cached0
        /\ pc[i] = "publish"
        /\ dresult[i] = Ok(blob_path(sha(i)))
        /\ gets[sha(i)] = 0

\* C8: not cached, 2xx, and the streamed bytes hash to the expected digest:
\* download commits and returns the canonical path, where a blob now holds
\* exactly the bytes served.
C8_MatchCommits ==
    [][\A i \in Tasks :
          (pc[i] = "verify" /\ Sha256(hasher[i]) = sha(i) /\ pc'[i] # "verify") =>
              /\ dresult'[i] = Ok(blob_path(sha(i)))
              /\ blobs'[sha(i)] = hasher[i]
              /\ parts'[sha(i)] = NoFile]_vars

\* C8 witness: a download that went to the network has committed its blob.
C8_Witness ==
    \E i \in Tasks :
        /\ sha(i) \notin cached0
        /\ pc[i] = "publish"
        /\ dresult[i] = Ok(blob_path(sha(i)))
        /\ gets[sha(i)] = 1
        /\ has_blob(sha(i))

\* C9: a non-2xx status makes download return NetworkFailure, and no blob
\* writer was started for the request: from the GET to the return there is
\* neither a .part file nor a canonical blob for the digest.
C9_BadStatusNoWriter ==
    /\ [](\A i \in Tasks :
            pc[i] \in {"sending", "responded"} =>
                parts[sha(i)] = NoFile /\ blobs[sha(i)] = NoFile)
    /\ [][\A i \in Tasks :
            (/\ pc[i] = "responded"
             /\ resp[i].sent /\ ~is_success(resp[i].status)
             /\ pc'[i] # "responded") =>
                /\ dresult'[i].kind = "NetworkFailure"
                /\ pc'[i] = "publish"
                /\ parts' = parts
                /\ blobs' = blobs]_vars

\* C9 witness: a download has returned NetworkFailure for a 404.
C9_Witness ==
    \E i \in Tasks :
        /\ pc[i] = "publish"
        /\ dresult[i] = NetworkFailure("HTTP 404 Not Found")
        /\ parts[sha(i)] = NoFile /\ blobs[sha(i)] = NoFile

\* C10: a successful download_all returns one path per request, in request
\* order: result i is the blob path of request i's digest.
C10_RequestOrder ==
    ret.status = "Ok" =>
        /\ Len(ret.paths) = Len(requests)
        /\ \A i \in Tasks : ret.paths[i] = blob_path(sha(i))

\* C10 witness: a batch of two different uncached digests has returned Ok
\* after both were fetched.
C10_Witness ==
    /\ ret.status = "Ok"
    /\ Len(requests) = 2
    /\ sha(1) # sha(2)
    /\ \A d \in Digests : d \notin cached0 /\ gets[d] = 1

\* C11: if any request of a batch fails, download_all returns an error and
\* no list of paths; a blob that is in the cache (committed by a request of
\* the batch or there before) stays as it is, and once a digest has a blob no
\* GET is issued for it any more.
C11_FailedBatchKeepsBlobs ==
    /\ [](failed # {} => ret.status # "Ok" /\ ret.paths = <<>>)
    /\ [][\A d \in Digests :
            has_blob(d) => blobs'[d] = blobs[d] /\ gets'[d] = gets[d]]_vars

\* C11 witness: the batch returned an error for its first request after its
\* second request had committed a blob; the blob is in the cache.
C11_Witness ==
    /\ ret.status = "Err"
    /\ 1 \in failed
    /\ Len(requests) = 2
    /\ sha(2) \notin cached0
    /\ pc[2] = "done"
    /\ 2 \notin failed
    /\ has_blob(sha(2))

\* C12: when the task that downloads digest d fails, with whatever error,
\* every request subscribed to d's in-flight entry is sent the Display text
\* of that error and returns NetworkFailure with that text as its message.
C12_SubscribersGetWinnersError ==
    /\ [][\A i \in Tasks :
            (pc[i] = "publish" /\ pc'[i] = "release" /\ dresult[i].kind # "Ok") =>
                \A j \in Tasks :
                    (pc[j] = "recv" /\ sha(j) = sha(i) /\ rx[j] = Empty) =>
                        /\ rx'[j].kind = "Err"
                        /\ rx'[j].message = to_string(dresult[i])]_vars
    /\ [][\A j \in Tasks :
            (pc[j] = "recv" /\ rx[j].kind = "Err" /\ pc'[j] = "done") =>
                /\ ret = NotReturned => result'[j] = NetworkFailure(rx[j].message)
                /\ ret # NotReturned => result'[j] = Gone]_vars

\* C12 witness: a subscriber has returned NetworkFailure carrying the text of
\* the winner's ChecksumMismatch.
C12_Witness ==
    \E j \in Tasks : \E a \in Digests :
        /\ pc[j] = "done"
        /\ a # sha(j)
        /\ result[j] = NetworkFailure(to_string(ChecksumMismatch(sha(j), a)))

\* Where a download in flight is suspended: in send().await and in
\* stream.next().await.
Suspended == {"sending", "stream"}

\* C13: once the batch is aborted, a download in flight that is suspended in
\* an .await is never resumed: it gets no response and no chunk, and no blob
\* is committed any more.
C13_AbortCancels ==
    [][ret.status = "Aborted" =>
          /\ \A i \in Tasks :
                pc[i] \in Suspended => pc'[i] = pc[i] /\ hasher'[i] = hasher[i]
          /\ blobs' = blobs]_vars

\* The keg has the relative paths of the store entry and nothing else; every
\* regular file has the bytes and the executable bit of its source, every
\* symlink is a symlink with its source's target, every directory a directory.
SameAsStore(keg) ==
    /\ keg.exists
    /\ ~keg.marker
    /\ \A p \in Paths :
          LET src == store_entry.nodes[p]
              dst == keg.nodes[p]
          IN  /\ (dst = Absent) <=> (src = Absent)
              /\ src.type = "file" =>
                    /\ dst.type = "file"
                    /\ dst.data = src.data
                    /\ is_executable(dst.mode) <=> is_executable(src.mode)
              /\ src.type = "symlink" => dst = Symlink(src.target)
              /\ src.type = "dir" => dst.type = "dir"

\* C14: when materialize succeeds for a keg that did not exist, it returns
\* the keg path, and the keg has exactly the relative paths of the store
\* entry, with the same bytes and executable bit for every regular file and a
\* symlink with the same target for every symlink, whatever the target is.
C14_KegReproducesStoreEntry ==
    (call.op = "materialize" /\ ~cellar0[Key].exists /\ cret.kind = "Ok") =>
        /\ cret = OkPath(keg_path(call.name, call.version))
        /\ store_entry.exists
        /\ SameAsStore(cellar[Key])

\* C14 witness: a store entry with an executable file in a directory and a
\* dangling symlink has been materialized into a new keg.
C14_Witness ==
    /\ call.op = "materialize" /\ ~cellar0[Key].exists /\ cret.kind = "Ok"
    /\ store_entry.nodes[<<"bin">>].type = "dir"
    /\ store_entry.nodes[<<"bin", "x">>] = File(755, 2)
    /\ store_entry.nodes[<<"lib">>] = Symlink("gone")
    /\ cellar[Key].nodes[<<"bin", "x">>] = File(755, 2)
    /\ cellar[Key].nodes[<<"lib">>] = Symlink("gone")

\* C15: when the keg directory exists already, materialize returns the keg
\* path and changes nothing in the cellar, whatever store_entry it is given.
C15_ExistingKegUntouched ==
    (call.op = "materialize" /\ cellar0[Key].exists) =>
        /\ cellar = cellar0
        /\ name_dirs = name_dirs0
        /\ stack = <<>>
        /\ cret \in {Calling, OkPath(keg_path(call.name, call.version))}

\* C15 witness: materialize returned Ok for a keg that holds a marker file,
\* given a store_entry path with nothing at it; the marker is still there.
C15_Witness ==
    /\ call.op = "materialize"
    /\ cellar0[Key].marker
    /\ store_entry = Missing
    /\ cret.kind = "Ok"
    /\ cellar[Key].marker

\* C16: after materialize has returned an error, the keg does not exist.
C16_FailureRemovesKeg ==
    (call.op = "materialize" /\ cret.kind = "StoreCorruption") => ~has_keg(Key)

\* C17: in every state, a keg directory that materialize has created at the
\* canonical path is a complete copy of the store entry.
C17_KegIsAtomic ==
    (call.op = "materialize" /\ ~cellar0[Key].exists /\ has_keg(Key)) =>
        SameAsStore(cellar[Key])

\* C18: after remove_keg returned Ok the keg does not exist, cellar/<name>
\* is gone exactly when the call emptied it, and every other keg is as it
\* was; for a keg that did not exist nothing has changed.
C18_RemoveKeg ==
    /\ (call.op = "remove_keg" /\ cret.kind = "Ok") =>
          /\ ~has_keg(Key)
          /\ \A k \in KegIds \ {Key} : cellar[k] = cellar0[k]
          /\ \A n \in FormulaNames \ {call.name} : n \in name_dirs <=> n \in name_dirs0
          /\ IF cellar0[Key].exists
             THEN call.name \in name_dirs <=> ~is_empty_dir(cellar, call.name)
             ELSE cellar = cellar0 /\ name_dirs = name_dirs0
    /\ (call.op = "remove_keg" /\ ~cellar0[Key].exists /\ cret # Calling) => cret = OkUnit

\* C18 witness: the only keg of a formula was removed, and its name
\* directory with it, while a keg of the other formula stayed.
C18_Witness ==
    /\ call.op = "remove_keg" /\ cret.kind = "Ok"
    /\ cellar0[Key].exists
    /\ ~has_keg(Key)
    /\ call.name \notin name_dirs
    /\ \E k \in KegIds : k[1] # call.name /\ cellar[k].exists /\ k[1] \in name_dirs

\* The tokens of a name.
TokensOf(s) == {s[i] : i \in 1..Len(s)}

\* s from its first to its last token that is not a blank.
Trimmed(s) ==
    LET NonBlank == {k \in 1..Len(s) : s[k] # " "}
    IN  IF NonBlank = {} THEN <<>>
        ELSE SubSeq(s, CHOOSE i \in NonBlank : \A k \in NonBlank : i <= k,
                       CHOOSE j \in NonBlank : \A k \in NonBlank : j >= k)

\* What a trimmed name t is expected to normalize to: a
\* formula part <x> is what follows the last slash, so a name with more
\* slashes after homebrew/core/ carries another tap prefix.
ExpectedName(t) ==
    IF "/" \notin TokensOf(t) THEN OkName(t)
    ELSE IF t = HomebrewCore \o <<"/">> THEN MissingFormula(t)
    ELSE IF /\ Len(t) > 4
            /\ SubSeq(t, 1, 4) = HomebrewCore \o <<"/">>
            /\ "/" \notin TokensOf(SubSeq(t, 5, Len(t)))
         THEN OkName(SubSeq(t, 5, Len(t)))
    ELSE UnsupportedTap(t)

\* C19: normalize_formula_name passes a name without a slash through,
\* trimmed of blanks; unwraps homebrew/core/<x> with a non-empty x to x;
\* answers MissingFormula for homebrew/core/ with nothing after it; and
\* answers UnsupportedTap with the trimmed name for every other name that
\* holds a slash.
C19_NormalizeCases ==
    normalized # NotNormalized => normalized = ExpectedName(Trimmed(formula))

\* C19 witness: a name with blanks around homebrew/core/a was unwrapped to a.
C19_Witness ==
    /\ command = "none"
    /\ formula = <<" ">> \o HomebrewCore \o <<"/", "a", " ">>
    /\ normalized = OkName(<<"a">>)

\* The name typed is tap-qualified and its tap is not homebrew/core.
OutsideCore == ExpectedName(Trimmed(formula)).kind = "UnsupportedTap"

\* C20: for a tap-qualified name outside homebrew/core, the Install command
\* and prepare_execution make no call to any operation of the installer and
\* change nothing that is installed, and when they return after the name
\* was normalized they return UnsupportedTap with the trimmed name.
C20_UnsupportedTapBeforeInstaller ==
    /\ [](OutsideCore =>
            /\ calls = <<>>
            /\ (cli_pc = "returned" /\ normalized # NotNormalized) =>
                  cli_ret = UnsupportedTap(Trimmed(formula)))
    /\ [][OutsideCore => installed' = installed /\ calls' = <<>>]_vars

\* C20 witness: `zb install " a/a"` returned UnsupportedTap("a/a") and no
\* operation of the installer was called.
C20_Witness ==
    /\ command = "install"
    /\ formula = <<" ", "a", "/", "a">>
    /\ cli_pc = "returned"
    /\ cli_ret = UnsupportedTap(<<"a", "/", "a">>)
    /\ calls = <<>>

\* The name a command is expected to hand to the installer.
ExpectedArg == ExpectedName(Trimmed(formula)).name

\* The operations of the installer called so far, in order.
CalledOps == [k \in 1..Len(calls) |-> calls[k].op]

\* C21: when prepare_execution succeeds for a formula that was not
\* installed, it has planned the formula and executed the plan with do_link
\* false; the formula is installed and has no link in the prefix; the path
\* returned is <keg>/bin/<normalized name> for the version recorded; and
\* prepare_execution never takes an installed formula out again.
C21_RunInstallsUnlinked ==
    /\ []((command = "run" /\ ~installed0 /\ cli_ret.kind = "Ok") =>
            /\ CalledOps = <<"is_installed", "plan", "execute", "get_installed">>
            /\ \A k \in 1..4 : calls[k].arg = ExpectedArg
            /\ calls[3].link = FALSE
            /\ installed /\ installed_version \in Versions
            /\ ~linked
            /\ cli_path = <<"cellar", ExpectedArg, installed_version, "bin", ExpectedArg>>)
    /\ [][(command = "run" /\ installed) =>
            installed' /\ installed_version' = installed_version]_vars

\* C21 witness: `zb run " a"` where a was not installed: version 2.0
\* was installed, not linked, and cellar/a/2.0/bin/a returned.
C21_Witness ==
    /\ command = "run" /\ ~installed0
    /\ formula = <<" ", "a">>
    /\ cli_ret.kind = "Ok"
    /\ installed /\ ~linked
    /\ cli_path = <<"cellar", <<"a">>, "2.0", "bin", <<"a">>>>

RunReturns == command = "run" /\ cli_ret = CliRunning /\ cli_ret' # CliRunning

\* C23: prepare_execution returns Ok only with a path at which it saw a file,
\* <keg>/bin/<normalized name>; it returns ExecutionError when the keg has no
\* such file, NotInstalled when get_installed finds no record after the
\* install step, and the very error installer.plan or installer.execute gave,
\* in which case the formula has no installed record.
C23_RunErrors ==
    [][RunReturns =>
        /\ cli_ret'.kind = "Ok" =>
              /\ has_bin
              /\ cli_path' = <<"cellar", ExpectedArg, installed_version, "bin", ExpectedArg>>
        /\ (cli_pc = "bin" /\ ~has_bin) => cli_ret'.kind = "ExecutionError"
        /\ (cli_pc = "get" /\ ~installed) => cli_ret'.kind = "NotInstalled"
        /\ cli_pc \in {"plan", "execute"} =>
              /\ calls'[Len(calls')].op = cli_pc
              /\ cli_ret' = CliErr(calls'[Len(calls')].err)
              /\ ~installed']_vars

\* C23 witness: plan failed with MissingFormula (the metadata fetch got a
\* 404), prepare_execution returned that error and a is not installed.
C23_Witness ==
    /\ command = "run" /\ formula = <<"a">>
    /\ cli_ret = CliErr("MissingFormula")
    /\ CalledOps = <<"is_installed", "plan">>
    /\ calls[2].err = "MissingFormula"
    /\ ~installed

\* C24: whenever download_all fails, the error it returns is, kind and
\* fields, the error that the single-request download behind the failing
\* request returned.
C24_ErrorsUnmodified ==
    ret.status = "Err" => ret.err = cause

\* C24, amended: the error download_all returns is the error of the download
\* behind the first failing request: that error itself when the request's
\* own task downloaded, and NetworkFailure carrying that error's Display
\* text when the request had subscribed to another task's download.
C24_ErrorsUnmodifiedOrRewrapped ==
    /\ ret.status = "Err" =>
          /\ cause.kind \in {"NetworkFailure", "ChecksumMismatch"}
          /\ ret.err \in {cause, NetworkFailure(to_string(cause))}
    /\ \A i \in Tasks :
          Finished(i) =>
              result[i] \in {origin[i], NetworkFailure(to_string(origin[i]))}

\* C24 witness: of two requests for one digest the second downloaded and got
\* a ChecksumMismatch; download_all returned the first request's error, a
\* NetworkFailure with the mismatch's text.
C24_Witness ==
    /\ Len(requests) = 2 /\ sha(1) = sha(2)
    /\ ret.status = "Err"
    /\ cause.kind = "ChecksumMismatch"
    /\ cause.expected = sha(1)
    /\ ret.err = NetworkFailure(to_string(cause))

\* Tasks in the winner role for digest d: from the insertion of d's in-flight
\* entry to its removal.
Winners(d) == {i \in Tasks : sha(i) = d /\ pc[i] \in {"acquire", "download", "sending",
                                                      "responded", "stream", "verify",
                                                      "publish"}}

\* Tasks with an open blob writer for digest d.
Writers(d) == {i \in Tasks : sha(i) = d /\ pc[i] \in {"stream", "verify"}}

\* C25: for each digest at most one task is in the winner role, and the
\* digest has an in-flight entry exactly while there is one; so at most one
\* download, and one blob writer, per digest is active at a time.
C25_OneWinnerPerDigest ==
    \A d \in Digests :
        /\ Cardinality(Winners(d)) <= 1
        /\ d \in inflight <=> Winners(d) # {}
        /\ Cardinality(Writers(d)) <= 1
        /\ parts[d] # NoFile <=> Writers(d) # {}

\* C25 witness: one task streams digest d into its .part file while another
\* request for d waits on the broadcast channel.
C25_Witness ==
    \E i, j \in Tasks :
        /\ i # j /\ sha(i) = sha(j)
        /\ pc[i] = "stream" /\ parts[sha(i)] # NoFile
        /\ pc[j] = "recv"

\* C26: a winner inserts its map entry before it waits for a permit, so a
\* request that arrives while it waits subscribes; it downloads only with
\* the entry in the map and a permit in hand; its result is sent and its
\* entry removed in one step under the map lock; and a permit is given back
\* only by a task whose entry has been removed.
C26_ProtocolOrder ==
    /\ [](\A i \in Tasks :
            pc[i] \in {"download", "sending", "responded", "stream", "verify", "publish"} =>
                sha(i) \in inflight /\ permits < concurrency)
    /\ [][\A i \in Tasks :
            /\ (pc[i] = "spawned" /\ pc'[i] # "spawned") =>
                  /\ permits' = permits
                  /\ IF Winners(sha(i)) = {}
                     THEN pc'[i] = "acquire" /\ sha(i) \notin inflight /\ sha(i) \in inflight'
                     ELSE pc'[i] = "recv" /\ inflight' = inflight
            /\ (pc[i] = "acquire" /\ pc'[i] # "acquire") =>
                  /\ pc'[i] = "download"
                  /\ permits > 0 /\ permits' = permits - 1
                  /\ sha(i) \in inflight'
            /\ (pc[i] = "publish" /\ pc'[i] # "publish") =>
                  /\ pc'[i] = "release"
                  /\ sha(i) \notin inflight'
                  /\ permits' = permits
                  /\ \A j \in Tasks : (pc[j] = "recv" /\ sha(j) = sha(i)) => rx'[j] # Empty
            /\ (pc[i] = "release" /\ pc'[i] # "release") =>
                  /\ permits' = permits + 1
                  /\ sha(i) \in inflight => Winners(sha(i)) # {}]_vars
    /\ [][permits' > permits => \E i \in Tasks : pc[i] = "release" /\ pc'[i] = "done"]_vars

\* C26 witness: a winner has sent its result to a subscriber and removed its
\* entry, and still holds its permit.
C26_Witness ==
    \E i, j \in Tasks :
        /\ pc[i] = "release" /\ sha(i) \notin inflight
        /\ permits < concurrency
        /\ sha(j) = sha(i) /\ pc[j] = "recv" /\ rx[j] # Empty

\* C27: a request that subscribed to an in-flight entry takes no permit and
\* issues no GET, it only receives; and the requests for one digest never
\* hold more than one permit between them.
C27_SubscribersTakeNoPermit ==
    /\ [][\A i \in Tasks :
            pc[i] = "recv" =>
                /\ pc'[i] \in {"recv", "done"}
                /\ pc'[i] = "done" => permits' = permits /\ gets' = gets]_vars
    /\ [](\A d \in Digests : Cardinality({i \in Holders : sha(i) = d}) <= 1)

\* Where task j is, for a j the batch may have no request for.
PcOf(j) == IF j \in Tasks THEN pc[j] ELSE "none"

\* The winner that subscriber j waits for has not published yet.
WinnerRuns(j) == j \in Tasks /\ pc[j] = "recv" /\ rx[j] = Empty /\ Winners(sha(j)) # {}

\* C28: every task subscribed to a digest when its winner publishes is sent
\* the winner's result in that step, and is sent nothing again; no receive
\* fails; and a task that has subscribed eventually gets its result, unless
\* its winner never gets to publish.
C28_NoLostNotification ==
    /\ [][\A i \in Tasks :
            (pc[i] = "publish" /\ pc'[i] # "publish") =>
                \A j \in Tasks :
                    (pc[j] = "recv" /\ sha(j) = sha(i) /\ rx[j] = Empty) =>
                        rx'[j] = broadcast_result(dresult[i])]_vars
    /\ [][\A j \in Tasks : rx[j] # Empty => rx'[j] \in {rx[j], Empty}]_vars
    /\ [][\A j \in Tasks :
            (pc[j] = "recv" /\ pc'[j] = "done") =>
                /\ rx[j] # Empty
                /\ ret = NotReturned =>
                      result'[j] \in {Ok(rx[j].path), NetworkFailure(rx[j].message)}]_vars
    /\ \A j \in 1..MaxReq :
          (PcOf(j) = "recv") ~> (PcOf(j) = "done" \/ [](WinnerRuns(j)))

\* C28 witness: a subscriber has received the result of a winner whose
\* download failed with a ChecksumMismatch.
C28_Witness ==
    \E i, j \in Tasks :
        /\ i # j /\ sha(i) = sha(j)
        /\ pc[i] = "done" /\ pc[j] = "done"
        /\ ret = NotReturned
        /\ result[i].kind = "ChecksumMismatch"
        /\ result[j] = NetworkFailure(to_string(result[i]))

\* C29: with at least one permit and fair scheduling, every task of the
\* batch eventually finishes and download_all eventually returns; until
\* then some step of the protocol can always be taken (no deadlock between
\* the map lock, the semaphore and the channels).
C29_BatchTerminates ==
    /\ [](concurrency >= 1 /\ (ret = NotReturned \/ \E i \in Tasks : pc[i] # "done")
            => ENABLED Next)
    /\ \A j \in 1..MaxReq : (concurrency >= 1 /\ j \in Tasks) ~> (PcOf(j) = "done")
    /\ (concurrency >= 1) ~> (ret # NotReturned)

\* A batch of two distinct digests went through one permit and returned
\* both paths.
C29_Witness ==
    /\ concurrency = 1
    /\ Len(requests) = 2
    /\ sha(1) # sha(2)
    /\ \A i \in Tasks : pc[i] = "done"
    /\ gets[sha(1)] = 1 /\ gets[sha(2)] = 1
    /\ ret.status = "Ok"
    /\ Len(ret.paths) = 2

\* C30: whatever number of permits the downloader was built with, a
\* non-empty batch of digests none of which is cached eventually completes:
\* download_all returns.
C30_EveryConcurrencyCompletes ==
    (Len(requests) >= 1 /\ \A i \in Tasks : sha(i) \notin cached0) ~> (ret # NotReturned)

\* C31: once every task of the batch has finished, the in-flight map is empty
\* and the semaphore has all its permits again.
C31_NothingLeftBehind ==
    (\A i \in Tasks : pc[i] = "done") => inflight = {} /\ permits = concurrency

\* Two tasks finished, one of them with an error, after both held a permit.
C31_Witness ==
    /\ Len(requests) = 2
    /\ \A i \in Tasks : pc[i] = "done"
    /\ concurrency >= 1
    /\ failed # {}
    /\ \E d \in Digests : gets[d] >= 1 /\ blobs[d] # NoFile /\ d \notin cached0
    /\ inflight = {}

\* C32: the error download_all returns is that of the failed request with
\* the lowest index: every request before it succeeded, whichever task
\* failed first in time; and download_all can return it as soon as that
\* request's task has finished, whatever the later tasks are doing.
C32_LowestIndexError ==
    /\ [][(ret = NotReturned /\ ret'.status = "Err") =>
            \E k \in Tasks :
                /\ k = joined + 1
                /\ pc[k] = "done"
                /\ k \in failed
                /\ ret'.err = result[k]
                /\ \A j \in failed : j >= k
                /\ Len(results) = k - 1]_vars
    /\ [](\A k \in Tasks :
            (ret = NotReturned /\ k \in failed /\ \A j \in 1..(k - 1) : pc[j] = "done" /\ j \notin failed)
                => ENABLED (JoinOk \/ JoinErr))

\* Both requests failed before download_all returned; it returned the
\* checksum mismatch of request 1, and the digests differ.
C32_Witness ==
    /\ ret.status = "Err"
    /\ failed = {1, 2}
    /\ sha(1) # sha(2)
    /\ ret.err.kind = "ChecksumMismatch"
    /\ ret.err.expected = sha(1)

\* download_all returned request 1's error while request 2's task was
\* still downloading.
C32_WitnessEarly ==
    /\ ret.status = "Err"
    /\ Len(requests) = 2
    /\ pc[2] \notin {"done", "spawned"}

\* C33: a download that has sent its GET finds no canonical blob for its
\* digest, and when it returns an error, whichever one, it leaves none and
\* no .part file of the digest either; the blobs of the cache are the ones
\* that were there before the step.
C33_ErrorLeavesCacheClean ==
    /\ [](\A i \in Tasks :
            pc[i] \in {"sending", "responded", "stream", "verify"} => blobs[sha(i)] = NoFile)
    /\ [][\A i \in Tasks :
            (dresult[i] = Pending /\ dresult'[i].kind \notin {"Pending", "Ok"}) =>
                /\ blobs' = blobs
                /\ blobs'[sha(i)] = NoFile
                /\ parts'[sha(i)] = NoFile]_vars

\* A download returned a chunk read error, and a later download of the same
\* digest has started a fresh writer.
C33_Witness ==
    \E i, j \in Tasks :
        /\ pc[i] = "done"
        /\ sha(j) = sha(i)
        /\ sha(i) \in spoiled
        /\ pc[j] = "stream"
        /\ parts[sha(j)] # NoFile
        /\ blobs[sha(j)] = NoFile

\* C34: after materialize has succeeded for a keg that did not exist, every
\* regular file and every directory of the store entry has the same
\* permission mode in the keg.
C34_ModeForMode ==
    (call.op = "materialize" /\ ~cellar0[Key].exists /\ cret.kind = "Ok") =>
        \A p \in Paths :
            store_entry.nodes[p].type \in {"file", "dir"} =>
                /\ cellar[Key].nodes[p].type = store_entry.nodes[p].type
                /\ cellar[Key].nodes[p].mode = store_entry.nodes[p].mode

\* C35: whatever calls of materialize for the keg came before, failed ones
\* included, when a call has returned Ok the keg is a complete copy of the
\* store entry.
C35_OkMeansCompleteKeg ==
    (call.op = "materialize" /\ cret.kind = "Ok") =>
        store_entry.exists /\ SameAsStore(cellar[Key])

\* C36: a name that normalize_formula_name returns holds no slash and no
\* blank at either end, and normalizes to itself.
C36_NormalizeIdempotent ==
    normalized.kind = "Ok" =>
        /\ "/" \notin TokensOf(normalized.name)
        /\ trim(normalized.name) = normalized.name
        /\ normalize_formula_name(normalized.name) = OkName(normalized.name)

\* The names `brew uninstall` has been run for.
BrewUninstalled == {calls[k].arg : k \in {n \in 1..Len(calls) : calls[n].op = "brew uninstall"}}

\* C37: `brew uninstall` is run for a formula only if its plan and its
\* execute succeeded in this run, never for a formula whose plan or execute
\* failed, and not at all when no formula was migrated.
C37_OnlyMigratedUninstalled ==
    /\ [](command = "migrate" =>
            \A n \in BrewUninstalled :
                /\ \E i \in migrated : packages[i] = n
                /\ n \notin failed_names)
    /\ [][command = "migrate" /\ calls' # calls /\ calls'[Len(calls')].op = "brew uninstall" =>
            /\ cli_pc = "brewing"
            /\ success_count > 0 /\ migrated # {}
            /\ \A i \in 1..Len(packages) : i \in migrated \/ packages[i] \in failed_names]_vars

\* Of two formulas the first was migrated and the second failed; the user
\* agreed to both prompts, and `brew uninstall` was run for the first only.
C37_Witness ==
    /\ command = "migrate"
    /\ cli_ret = CliOk
    /\ Len(packages) = 2
    /\ packages[1] # packages[2]
    /\ migrated = {1}
    /\ failed_names = {packages[2]}
    /\ ~yes /\ confirms(answer)
    /\ BrewUninstalled = {packages[1]}

\* C38: `zb uninstall` calls installer.uninstall for the listed formulas in
\* list order; a failing call is the last one and its error is what the
\* command returns; then the formulas listed before it are uninstalled,
\* and it and the ones listed after it are still installed.
C38_StopsAtFirstFailure ==
    command = "uninstall" =>
        /\ Len(calls) <= Len(kegs)
        /\ \A k \in 1..Len(calls) :
              /\ calls[k].op = "uninstall" /\ calls[k].arg = kegs[k]
              /\ "err" \in DOMAIN calls[k] =>
                    /\ k = Len(calls)
                    /\ cli_ret = CliErr(calls[k].err)
                    /\ \A j \in 1..Len(kegs) : kegs[j] \in db <=> j >= k

\* Of three installed formulas the second failed to uninstall.
C38_Witness ==
    /\ command = "uninstall"
    /\ Len(kegs) = 3
    /\ Len(calls) = 2
    /\ cli_ret = CliErr("StoreCorruption")
    /\ db = {kegs[2], kegs[3]}

\* The answer is y or Y once the white space around it is taken off.
AnsweredYes == trim(answer) \in {<<"y">>, <<"Y">>}

\* The directories that Reset has removed.
ResetRemoved ==
    {calls[k].arg : k \in {j \in 1..Len(calls) : calls[j].op = "remove" /\ "err" \notin DOMAIN calls[j]}}

\* C39: Reset removes and re-initializes only with --yes or after the
\* answer y (in either case); with another answer nothing is removed and
\* run_init is not called, and the command returns Ok; when neither
\* directory exists it returns Ok and does nothing; when the removal loop
\* has ended the next step is run_init, and when the command returns Ok
\* after removing a directory, root and prefix exist.
C39_ResetOnlyAfterConfirmation ==
    /\ [](command = "reset" /\ calls # <<>> => yes \/ AnsweredYes)
    /\ [](command = "reset" /\ ~yes /\ answer # NoReply /\ ~AnsweredYes =>
             calls = <<>> /\ cli_ret = CliOk)
    /\ [][command = "reset" /\ cli_pc # "create"
             /\ (root_exists' # root_exists \/ prefix_exists' # prefix_exists) =>
                 /\ yes \/ AnsweredYes
                 /\ calls' # calls]_vars
    /\ [][command = "reset" /\ cli_pc = "arm" /\ ~root_exists /\ ~prefix_exists =>
             /\ cli_ret' = CliOk
             /\ UNCHANGED <<calls, answer, root_exists, prefix_exists, initialized>>]_vars
    /\ [][command = "reset" /\ cli_pc = "removing" /\ idx = Len(ResetDirs) =>
             calls'[Len(calls')].op = "run_init"]_vars
    /\ [](command = "reset" /\ cli_ret = CliOk /\ ResetRemoved # {} =>
             /\ calls[Len(calls)] = [op |-> "run_init", arg |-> "root"]
             /\ root_exists /\ prefix_exists)

\* After the answer Y both directories were removed and made again.
C39_Witness ==
    /\ command = "reset"
    /\ ~yes /\ answer = <<"Y">>
    /\ ResetRemoved = {"root", "prefix"}
    /\ cli_ret = CliOk
    /\ root_exists /\ prefix_exists
====
